---- MODULE Spec2Model ----
(***************************************************************************)
(* Authentication and token lifecycle of the luff CLI tools:               *)
(*   - the generic OAuth2 client of packages/shared/src/http.ts,           *)
(*   - the Keychain secret store of packages/shared/src/keychain.ts,       *)
(*   - the local OAuth2 callback listener of the cal and mail CLIs,        *)
(*   - the Garmin SSO login and OAuth1->OAuth2 exchange of                 *)
(*     packages/garmin/src/auth.ts.                                        *)
(* JavaScript strings are sequences of one-character strings, so that      *)
(* String(n), parseInt, trim, includes and the regular expressions are     *)
(* computed character by character as the code computes them.              *)
(***************************************************************************)
EXTENDS Integers, Sequences, FiniteSets, TLC

VARIABLES
  store,           \* the Keychain: (tool, account) -> value
  now,             \* Math.floor(Date.now() / 1000)
  last,            \* what the last command did
  cmd,             \* position of the running auth-login command
  cmdTool,         \* token namespace the running auth-login writes to
  expectedState,   \* the state nonce generated for this login attempt
  promise,         \* the promise oauthCallbackFlow returns
  listening,       \* the Bun.serve listener is bound and serving
  stopTimers,      \* pending setTimeout(() => server.stop(), 100)
  timeoutPending,  \* the 120 s timer is pending
  handled,         \* requests the listener has answered in this attempt
  request,         \* query parameters of the last request it answered
  response,        \* body of the listener's last answer
  exchange,        \* the last exchangeCode call of an auth-login
  garmin,          \* position and local variables of a running garmin login
  tasks,           \* per account, the getValidAccessToken call of cal agenda
  accounts,        \* ~/.config/luff/accounts.json: the registered accounts
  signed           \* the OAuth1 headers signed so far, oldest first

\* ------------------------------------------------------------------------
\* Bounds of the model
\* ------------------------------------------------------------------------

\* Unix second at which every behaviour starts.
StartTime == 100

\* Number of one-second clock ticks a behaviour may take.
MaxTicks == 3

\* Number of requests the callback listener answers in one login attempt.
MaxRequests == 2

\* ------------------------------------------------------------------------
\* JavaScript values
\* ------------------------------------------------------------------------

\* null / undefined where a string is expected.
Null == <<"<null>">>

\* !s for a string-or-null s.
Falsy(s) == s = Null \/ s = <<>>

\* A JavaScript number: an integer or NaN.
NaN == [nan |-> TRUE, v |-> 0]
Num(n) == [nan |-> FALSE, v |-> n]

\* a < b and a >= b on numbers: every comparison with NaN is false.
Lt(a, b) == ~a.nan /\ ~b.nan /\ a.v < b.v
Ge(a, b) == ~a.nan /\ ~b.nan /\ a.v >= b.v

Digits == <<"0", "1", "2", "3", "4", "5", "6", "7", "8", "9">>
IsDigit(c) == \E i \in 1..10 : Digits[i] = c
DigitVal(c) == (CHOOSE i \in 1..10 : Digits[i] = c) - 1
IsSpace(c) == c \in {" ", "\n", "\t"}

RECURSIVE NatToString(_)
NatToString(n) ==
  IF n < 10 THEN <<Digits[n + 1]>>
  ELSE Append(NatToString(n \div 10), Digits[(n % 10) + 1])

\* String(n) for an integer n.
String(n) == IF n < 0 THEN <<"-">> \o NatToString(-n) ELSE NatToString(n)

RECURSIVE TrimStart(_)
TrimStart(s) ==
  IF s # <<>> /\ IsSpace(Head(s)) THEN TrimStart(Tail(s)) ELSE s

RECURSIVE TrimEnd(_)
TrimEnd(s) ==
  IF s # <<>> /\ IsSpace(s[Len(s)]) THEN TrimEnd(SubSeq(s, 1, Len(s) - 1)) ELSE s

\* s.trim()
Trim(s) == TrimEnd(TrimStart(s))

\* Value of the longest prefix of decimal digits of s, continuing from acc.
RECURSIVE DigitsValue(_, _)
DigitsValue(s, acc) ==
  IF s # <<>> /\ IsDigit(Head(s))
  THEN DigitsValue(Tail(s), acc * 10 + DigitVal(Head(s)))
  ELSE acc

\* parseInt(s, 10): leading white space skipped, an optional sign, then the
\* longest run of digits; NaN when there is no digit.
parseInt(s) ==
  LET t == TrimStart(s)
      neg == t # <<>> /\ Head(t) = "-"
      u == IF t # <<>> /\ Head(t) \in {"-", "+"} THEN Tail(t) ELSE t
  IN IF u = <<>> \/ ~IsDigit(Head(u)) THEN NaN
     ELSE Num(IF neg THEN -DigitsValue(u, 0) ELSE DigitsValue(u, 0))

\* A JSON value of a response object: absent, a string or a number.
Absent == [t |-> "absent", s |-> <<>>, n |-> 0]
JStr(s) == [t |-> "string", s |-> s, n |-> 0]
JNum(n) == [t |-> "number", s |-> <<>>, n |-> n]

\* !v for a JSON value.
JFalsy(v) ==
  \/ v.t = "absent"
  \/ v.t = "string" /\ v.s = <<>>
  \/ v.t = "number" /\ v.n = 0

\* ------------------------------------------------------------------------
\* SecretStore: the Keychain, a map (tool, account) -> value
\* ------------------------------------------------------------------------

setSecret(st, tool, account, value) ==
  [p \in DOMAIN st \cup {<<tool, account>>} |->
     IF p = <<tool, account>> THEN value ELSE st[p]]

getSecret(st, tool, account) ==
  IF <<tool, account>> \in DOMAIN st THEN Trim(st[<<tool, account>>]) ELSE Null

deleteSecret(st, tool, account) ==
  [p \in DOMAIN st \ {<<tool, account>>} |-> st[p]]

\* The empty Keychain.
EmptyStore == [p \in {} |-> <<>>]

\* ------------------------------------------------------------------------
\* Generic OAuth2 client (packages/shared/src/http.ts)
\* ------------------------------------------------------------------------

\* Seconds subtracted from every provider-reported lifetime.
SafetyBuffer == 60

\* Lifetime assumed when expires_in is absent or unusable.
DefaultExpiresIn == 3600

\* A token endpoint response: a JSON object, or a body that is not JSON.
\* NoResponse stands for "no request was sent".
JsonResponse(a, r, e) ==
  [kind |-> "json", access_token |-> a, refresh_token |-> r, expires_in |-> e]
InvalidResponse ==
  [kind |-> "invalid", access_token |-> Absent, refresh_token |-> Absent,
   expires_in |-> Absent]
NoResponse ==
  [kind |-> "none", access_token |-> Absent, refresh_token |-> Absent,
   expires_in |-> Absent]

\* OAuth2Tokens, and the absence of them.
Tokens(a, r, e) == [accessToken |-> a, refreshToken |-> r, expiresAt |-> e]
NoTokens == Tokens(Null, Null, NaN)

\* The result of a call that returns tokens or throws.
Thrown(kind) == [error |-> kind, tokens |-> NoTokens]
Returned(tokens) == [error |-> "none", tokens |-> tokens]

saveOAuth2Credentials(st, tool, clientId, clientSecret, redirectUri) ==
  setSecret(setSecret(setSecret(st, tool, "client-id", clientId),
                      tool, "client-secret", clientSecret),
            tool, "redirect-uri", redirectUri)

\* ok = FALSE is the thrown "No OAuth2 credentials" error.
loadOAuth2Credentials(st, tool) ==
  LET clientId == getSecret(st, tool, "client-id")
      clientSecret == getSecret(st, tool, "client-secret")
      redirectUri == getSecret(st, tool, "redirect-uri")
  IN [ok |-> ~(Falsy(clientId) \/ Falsy(clientSecret) \/ Falsy(redirectUri)),
      clientId |-> clientId, clientSecret |-> clientSecret,
      redirectUri |-> redirectUri]

\* Mutant: no default lifetime, an unusable expires_in counts as 0.
expiresIn_noDefault(rawExpires) ==
  IF rawExpires.t = "number" THEN rawExpires.n
  ELSE IF rawExpires.t = "string"
       THEN LET p == parseInt(rawExpires.s) IN IF p.nan THEN 0 ELSE p.v
       ELSE 0

\* The lifetime parseTokenResponse takes from expires_in.
expiresIn(rawExpires) ==
  IF rawExpires.t = "number" THEN rawExpires.n
  ELSE IF rawExpires.t = "string"
       THEN LET p == parseInt(rawExpires.s)
            IN IF p.nan \/ p.v = 0 THEN DefaultExpiresIn ELSE p.v
       ELSE DefaultExpiresIn

\* Mutant: the existing refresh token is not preserved.
refreshTokenOf_dropExisting(rawRefresh, existingRefreshToken) ==
  IF rawRefresh.t = "string" /\ rawRefresh.s # <<>> THEN rawRefresh.s ELSE Null

\* The refresh token parseTokenResponse keeps.
refreshTokenOf(rawRefresh, existingRefreshToken) ==
  IF rawRefresh.t = "string" /\ rawRefresh.s # <<>>
  THEN rawRefresh.s
  ELSE existingRefreshToken

\* Mutant: the lifetime is stored as it is, not as an instant.
parseTokenResponse_relativeExpiry(data, existingRefreshToken, t) ==
  IF data.access_token.t # "string" \/ JFalsy(data.access_token)
  THEN Thrown("InvalidAccessToken")
  ELSE LET refreshToken == refreshTokenOf(data.refresh_token, existingRefreshToken)
       IN IF Falsy(refreshToken)
          THEN Thrown("NoRefreshToken")
          ELSE Returned(Tokens(data.access_token.s, refreshToken,
                               Num(expiresIn(data.expires_in) - SafetyBuffer)))

parseTokenResponse(data, existingRefreshToken, t) ==
  IF data.access_token.t # "string" \/ JFalsy(data.access_token)
  THEN Thrown("InvalidAccessToken")
  ELSE LET refreshToken == refreshTokenOf(data.refresh_token, existingRefreshToken)
       IN IF Falsy(refreshToken)
          THEN Thrown("NoRefreshToken")
          ELSE Returned(Tokens(data.access_token.s, refreshToken,
                               Num(t + expiresIn(data.expires_in) - SafetyBuffer)))

\* exchangeCode once the token endpoint has answered with res at time t.
exchangeCode(res, t) ==
  IF res.kind # "json" THEN Thrown("JsonParseError")
  ELSE IF JFalsy(res.access_token) THEN Thrown("TokenExchangeFailed")
  ELSE parseTokenResponse(res, Null, t)

\* refreshAccessToken once the token endpoint has answered with res at time t.
refreshAccessToken(res, refreshToken, t) ==
  IF res.kind # "json" THEN Thrown("JsonParseError")
  ELSE IF JFalsy(res.access_token) THEN Thrown("RefreshFailed")
  ELSE parseTokenResponse(res, refreshToken, t)

saveTokens(st, tool, tokens) ==
  setSecret(setSecret(setSecret(st, tool, "access-token", tokens.accessToken),
                      tool, "refresh-token", tokens.refreshToken),
            tool, "expires-at", String(tokens.expiresAt.v))

\* loadTokens; NoTokens is the null it returns when not logged in.
loadTokens(st, tool) ==
  LET accessToken == getSecret(st, tool, "access-token")
      refreshToken == getSecret(st, tool, "refresh-token")
      expiresAt == getSecret(st, tool, "expires-at")
  IN IF Falsy(accessToken) \/ Falsy(refreshToken) THEN NoTokens
     ELSE Tokens(accessToken, refreshToken,
                 IF Falsy(expiresAt) THEN Num(0) ELSE parseInt(expiresAt))

\* What one call of a token operation did: the store it leaves, how it ended,
\* the value it returned, the requests it sent to the token endpoint and the
\* response it consumed.
Call(st, outcome, value, requests, res) ==
  [store |-> st, outcome |-> outcome, value |-> value, requests |-> requests,
   res |-> res]

\* Mutant: a token is still handed out as cached at the second it expires.
getValidAccessToken_lateExpiry(st, tool, credentialsTool, t, res) ==
  LET tokens == loadTokens(st, tool)
      creds == loadOAuth2Credentials(st, credentialsTool)
      refreshed == refreshAccessToken(res, tokens.refreshToken, t)
  IN IF tokens = NoTokens THEN Call(st, "NotLoggedIn", Null, 0, NoResponse)
     ELSE IF ~tokens.expiresAt.nan /\ t <= tokens.expiresAt.v
          THEN Call(st, "Cached", tokens.accessToken, 0, NoResponse)
     ELSE IF ~creds.ok THEN Call(st, "NoCredentials", Null, 0, NoResponse)
     ELSE IF refreshed.error # "none" THEN Call(st, refreshed.error, Null, 1, res)
     ELSE Call(saveTokens(st, tool, refreshed.tokens), "Refreshed",
               refreshed.tokens.accessToken, 1, res)

\* Mutant: a failed refresh is tried a second time.
getValidAccessToken_retriesRefresh(st, tool, credentialsTool, t, res) ==
  LET tokens == loadTokens(st, tool)
      creds == loadOAuth2Credentials(st, credentialsTool)
      refreshed == refreshAccessToken(res, tokens.refreshToken, t)
  IN IF tokens = NoTokens THEN Call(st, "NotLoggedIn", Null, 0, NoResponse)
     ELSE IF Lt(Num(t), tokens.expiresAt)
          THEN Call(st, "Cached", tokens.accessToken, 0, NoResponse)
     ELSE IF ~creds.ok THEN Call(st, "NoCredentials", Null, 0, NoResponse)
     ELSE IF refreshed.error # "none" THEN Call(st, refreshed.error, Null, 2, res)
     ELSE Call(saveTokens(st, tool, refreshed.tokens), "Refreshed",
               refreshed.tokens.accessToken, 1, res)

\* Mutant: a call without persisted tokens goes on to the refresh.
getValidAccessToken_noLoginCheck(st, tool, credentialsTool, t, res) ==
  LET tokens == loadTokens(st, tool)
      creds == loadOAuth2Credentials(st, credentialsTool)
      refreshed == refreshAccessToken(res, Null, t)
  IN IF tokens # NoTokens /\ Lt(Num(t), tokens.expiresAt)
     THEN Call(st, "Cached", tokens.accessToken, 0, NoResponse)
     ELSE IF ~creds.ok THEN Call(st, "NoCredentials", Null, 0, NoResponse)
     ELSE IF refreshed.error # "none" THEN Call(st, refreshed.error, Null, 1, res)
     ELSE Call(saveTokens(st, tool, refreshed.tokens), "Refreshed",
               refreshed.tokens.accessToken, 1, res)

\* getValidAccessToken(tool, config, credentialsTool) at time t, where res is
\* what the token endpoint answers if it is asked.
getValidAccessToken(st, tool, credentialsTool, t, res) ==
  LET tokens == loadTokens(st, tool)
      creds == loadOAuth2Credentials(st, credentialsTool)
      refreshed == refreshAccessToken(res, tokens.refreshToken, t)
  IN IF tokens = NoTokens THEN Call(st, "NotLoggedIn", Null, 0, NoResponse)
     ELSE IF Lt(Num(t), tokens.expiresAt)
          THEN Call(st, "Cached", tokens.accessToken, 0, NoResponse)
     ELSE IF ~creds.ok THEN Call(st, "NoCredentials", Null, 0, NoResponse)
     ELSE IF refreshed.error # "none" THEN Call(st, refreshed.error, Null, 1, res)
     ELSE Call(saveTokens(st, tool, refreshed.tokens), "Refreshed",
               refreshed.tokens.accessToken, 1, res)

RECURSIVE deleteAll(_, _, _)
deleteAll(st, tool, keys) ==
  IF keys = <<>> THEN st
  ELSE deleteAll(deleteSecret(st, tool, Head(keys)), tool, Tail(keys))

clearOAuth2Data(st, tool) ==
  deleteAll(st, tool, <<"client-id", "client-secret", "redirect-uri",
                        "access-token", "refresh-token", "expires-at">>)

\* ------------------------------------------------------------------------
\* State of a browser login (cal auth-login, mail auth-login)
\* ------------------------------------------------------------------------

loginVars ==
  <<cmd, cmdTool, expectedState, promise, listening, stopTimers, timeoutPending,
    handled, request, response, exchange>>

vars == <<store, now, last, loginVars, garmin, tasks, accounts, signed>>

\* The promise of oauthCallbackFlow: pending, resolved with {code, redirectUri}
\* or rejected with an error.
Pending == [status |-> "pending", code |-> Null, redirectUri |-> Null,
            error |-> "none"]
Resolved(code, redirectUri) ==
  [status |-> "resolved", code |-> code, redirectUri |-> redirectUri,
   error |-> "none"]
Rejected(error) ==
  [status |-> "rejected", code |-> Null, redirectUri |-> Null, error |-> error]

\* Query parameters of a request: url.searchParams.get gives null or a string.
Query(error, code, state) == [error |-> error, code |-> code, state |-> state]
NoRequest == Query(Null, Null, Null)

\* No exchangeCode call has been made by the running command.
NoExchange ==
  [called |-> FALSE, tool |-> "none", code |-> Null, returnedState |-> Null,
   expectedState |-> Null, compared |-> FALSE]

\* The local variables of garmin's login(): where it stands, the ticket, the
\* consumer and the OAuth1 token it has obtained so far.
Login(pc, consumer, loginHtml, ticket, oauthToken, oauthTokenSecret) ==
  [pc |-> pc, consumer |-> consumer, loginHtml |-> loginHtml, ticket |-> ticket,
   oauthToken |-> oauthToken, oauthTokenSecret |-> oauthTokenSecret]
Consumer(key, secret) == [consumer_key |-> key, consumer_secret |-> secret]
NoConsumer == Consumer(Null, Null)
NotInLogin == Login("idle", NoConsumer, Null, Null, Null, Null)

\* The accounts cal agenda lists events of.
AgendaAccounts == {"cal-a", "cal-b"}

\* The getValidAccessToken call cal agenda makes for one account: where it
\* stands, the refresh token it sent and how it ended.
Task(pc, refreshToken, outcome) ==
  [pc |-> pc, refreshToken |-> refreshToken, outcome |-> outcome]
NoTasks == [a \in AgendaAccounts |-> Task("idle", Null, "none")]

\* No auth-login is running and no listener exists.
NoLogin ==
  /\ cmd = "idle"
  /\ cmdTool = "none"
  /\ expectedState = Null
  /\ promise = Pending
  /\ listening = FALSE
  /\ stopTimers = 0
  /\ timeoutPending = FALSE
  /\ handled = 0
  /\ request = NoRequest
  /\ response = "none"
  /\ exchange = NoExchange
  /\ garmin = NotInLogin
  /\ tasks = NoTasks
  /\ accounts = <<>>
  /\ signed = <<>>

\* ------------------------------------------------------------------------
\* Token lifecycle of an OAuth2 tool: the whoop CLI (packages/whoop/src/cli.ts)
\* ------------------------------------------------------------------------

\* const TOOL = "whoop": tokens and client credentials share the namespace.
TOOL == "whoop"

ClientId == <<"i", "d">>
ClientSecret == <<"s", "e", "c">>
RedirectUri == <<"u", "r", "i">>

\* Values the token endpoint may put in a response.
AccessTokenValues == {Absent, JStr(<<"a", "1">>), JStr(<<"a", "2">>)}
RefreshTokenValues == {Absent, JStr(<<"r", "1">>), JStr(<<"r", "2">>)}
ExpiresInValues == {Absent, JNum(SafetyBuffer), JNum(61), JNum(62)}

TokenResponses ==
  {JsonResponse(a, r, e) :
     a \in AccessTokenValues, r \in RefreshTokenValues, e \in ExpiresInValues}
  \cup {InvalidResponse}

\* The answers the code exchange is tried on: an absent, empty, numeric or
\* string access_token, an absent, empty or string refresh_token, an absent,
\* numeric, numeric-string or non-numeric-string expires_in; or no JSON at all.
ExchangeResponses ==
  {JsonResponse(a, r, e) :
     a \in {Absent, JStr(<<>>), JStr(<<"a", "1">>), JNum(7)},
     r \in {Absent, JStr(<<>>), JStr(<<"r", "1">>)},
     e \in {Absent, JNum(0), JNum(61), JStr(<<"6", "1">>), JStr(<<"6", "2", "s">>),
            JStr(<<"0">>), JStr(<<"x">>)}}
  \cup {InvalidResponse}

\* What the last command did; Idle when the last step was no command.
Did(op, tool, call) ==
  [op |-> op, tool |-> tool, outcome |-> call.outcome, value |-> call.value,
   requests |-> call.requests, res |-> call.res]
Idle == Did("none", "none", Call(EmptyStore, "none", Null, 0, NoResponse))

\* The tail of every auth-login command: the code is exchanged at time t and
\* the tokens are saved.
exchangeAndSave(st, tool, t, res) ==
  LET exchanged == exchangeCode(res, t)
  IN IF exchanged.error # "none" THEN Call(st, exchanged.error, Null, 1, res)
     ELSE Call(saveTokens(st, tool, exchanged.tokens), "LoggedIn",
               exchanged.tokens.accessToken, 1, res)

\* whoop auth-login, given whether the pasted redirect URL carries a code.
whoopAuthLogin(st, t, hasCode, res) ==
  IF ~loadOAuth2Credentials(st, TOOL).ok
  THEN Call(st, "NoCredentials", Null, 0, NoResponse)
  ELSE IF ~hasCode THEN Call(st, "NoCode", Null, 0, NoResponse)
  ELSE exchangeAndSave(st, TOOL, t, res)

\* whoop auth-setup
AuthSetup ==
  /\ store' = saveOAuth2Credentials(store, TOOL, ClientId, ClientSecret,
                                    RedirectUri)
  /\ last' = Idle
  /\ UNCHANGED <<now, loginVars, garmin, tasks, accounts, signed>>

\* whoop auth-login, the token endpoint answering with one of responses.
AuthLoginFrom(responses) ==
  \E hasCode \in BOOLEAN :
    \E res \in IF hasCode THEN responses ELSE {NoResponse} :
      LET call == whoopAuthLogin(store, now, hasCode, res)
      IN /\ store' = call.store
         /\ last' = Did("auth-login", TOOL, call)
         /\ UNCHANGED <<now, loginVars, garmin, tasks, accounts, signed>>

\* whoop auth-login
AuthLogin == AuthLoginFrom(TokenResponses)

\* whoop auth-login against the wider range of token endpoint answers
AuthLoginAnyAnswer == AuthLoginFrom(ExchangeResponses)

\* Any data command of the tool: it starts with getValidAccessToken.
GetValidAccessToken ==
  \E res \in TokenResponses :
    LET call == getValidAccessToken(store, TOOL, TOOL, now, res)
    IN /\ store' = call.store
       /\ last' = Did("getValidAccessToken", TOOL, call)
       /\ UNCHANGED <<now, loginVars, garmin, tasks, accounts, signed>>

\* whoop auth-logout
AuthLogout ==
  /\ store' = clearOAuth2Data(store, TOOL)
  /\ last' = Idle
  /\ UNCHANGED <<now, loginVars, garmin, tasks, accounts, signed>>

\* One second passes between two commands.
Tick ==
  /\ now < StartTime + MaxTicks
  /\ now' = now + 1
  /\ last' = Idle
  /\ UNCHANGED <<store, loginVars, garmin, tasks, accounts, signed>>

Init ==
  /\ store = EmptyStore
  /\ now = StartTime
  /\ last = Idle
  /\ NoLogin

Next ==
  \/ AuthSetup
  \/ AuthLogin
  \/ GetValidAccessToken
  \/ AuthLogout
  \/ Tick

Spec == Init /\ [][Next]_vars

\* The code exchange on its own: auth-login, run after auth-setup, against
\* every answer of ExchangeResponses at every second of the clock.
InitExchange ==
  /\ store = saveOAuth2Credentials(EmptyStore, TOOL, ClientId, ClientSecret,
                                   RedirectUri)
  /\ now = StartTime
  /\ last = Idle
  /\ NoLogin

NextExchange ==
  \/ AuthLoginAnyAnswer
  \/ Tick

SpecExchange == InitExchange /\ [][NextExchange]_vars


\* ------------------------------------------------------------------------
\* Properties of the token lifecycle
\* ------------------------------------------------------------------------

\* The stored expires-at as the integer written in the Keychain.
StoredExpiresAt(st) == parseInt(getSecret(st, TOOL, "expires-at"))

\* C1: a getValidAccessToken call that finds persisted tokens returns the
\* persisted access token, sends no request and leaves the store as it is when
\* now < expiresAt, and sends exactly one refresh request when now >= expiresAt.
C1_CachedOrOneRefresh ==
  [][(last'.op = "getValidAccessToken" /\ loadTokens(store, TOOL) # NoTokens) =>
       IF now < StoredExpiresAt(store).v
       THEN /\ last'.value = getSecret(store, TOOL, "access-token")
            /\ last'.requests = 0
            /\ store' = store
       ELSE last'.requests = 1]_vars

\* C1 witness: a call found the persisted token expired and refreshed it with
\* one request.
C1_Witness ==
  /\ last.op = "getValidAccessToken"
  /\ last.outcome = "Refreshed"
  /\ last.requests = 1

\* C2: a refresh whose response carries an access_token and omits refresh_token
\* returns tokens, and the refresh token persisted afterwards is the one that
\* was stored before the refresh.
C2_RefreshTokenPreserved ==
  [][(/\ last'.op = "getValidAccessToken"
      /\ last'.requests = 1
      /\ last'.res.kind = "json"
      /\ last'.res.access_token.t = "string"
      /\ last'.res.access_token.s # <<>>
      /\ last'.res.refresh_token = Absent) =>
       /\ last'.outcome = "Refreshed"
       /\ getSecret(store', TOOL, "refresh-token")
            = getSecret(store, TOOL, "refresh-token")
       /\ getSecret(store', TOOL, "access-token") = last'.res.access_token.s]_vars

\* C2 witness: a refresh answered without refresh_token has succeeded.
C2_Witness ==
  /\ last.op = "getValidAccessToken"
  /\ last.outcome = "Refreshed"
  /\ last.res.refresh_token = Absent
  /\ getSecret(store, TOOL, "refresh-token") # Null

C9_Lifetime(e) ==
  IF e.t = "number" THEN e.n
  ELSE IF e.t = "string" /\ e.s # <<>> /\ e.s[1] \in {"6"} THEN
         (IF Len(e.s) >= 2 /\ e.s[2] = "1" THEN 61 ELSE 62)
  ELSE 3600

LoginTools == {"cal-a"}
credentialsTool(tool) == "cal"

\* crypto.randomUUID() values, authorization codes and error parameters.
States == {<<"s", "1">>, <<"s", "2">>}
Codes == {<<"c", "1">>, <<"c", "2">>}
Errors == {<<"d", "e", "n", "i", "e", "d">>}

\* `http://localhost:${server.port}`
LocalRedirectUri == <<"l", "o", "c", "a", "l">>

\* Requests that may reach the listener, and redirect URLs that may be pasted.
Requests ==
  {Query(e, c, s) :
     e \in {Null} \cup Errors, c \in {Null} \cup Codes, s \in {Null} \cup States}
PastedUrls == {Query(Null, c, s) : c \in {Null} \cup Codes, s \in {Null} \cup States}

\* What the token endpoint answers to a code exchange during a login.
LoginResponses ==
  {JsonResponse(JStr(<<"a", "1">>), JStr(<<"r", "1">>), JNum(61)),
   JsonResponse(JStr(<<"a", "2">>), JStr(<<"r", "2">>), Absent),
   JsonResponse(Absent, Absent, Absent)}

\* resolve(v) / reject(e): only a pending promise is settled.
settle(pr, outcome) == IF pr.status = "pending" THEN outcome ELSE pr

\* What the fetch handler does with one request: the promise afterwards, whether
\* it schedules server.stop() in 100 ms, and the body it answers with.
Handled(pr, stop, body) == [promise |-> pr, stop |-> stop, body |-> body]

\* Mutant: the returned state is not compared with the expected one.
fetchHandler_noStateCheck(req, state, redirectUri, pr) ==
  IF ~Falsy(req.error)
  THEN Handled(settle(pr, Rejected("OAuth2Error")), TRUE, "Authentication failed")
  ELSE IF Falsy(req.code) THEN Handled(pr, FALSE, "Waiting")
  ELSE Handled(settle(pr, Resolved(req.code, redirectUri)), TRUE, "Authenticated")

\* Mutant: a successful callback does not schedule server.stop().
fetchHandler_noStopOnSuccess(req, state, redirectUri, pr) ==
  IF ~Falsy(req.error)
  THEN Handled(settle(pr, Rejected("OAuth2Error")), TRUE, "Authentication failed")
  ELSE IF Falsy(req.code) THEN Handled(pr, FALSE, "Waiting")
  ELSE IF req.state # state
       THEN Handled(settle(pr, Rejected("StateMismatch")), TRUE, "State mismatch")
  ELSE Handled(settle(pr, Resolved(req.code, redirectUri)), FALSE, "Authenticated")

\* Mutant: a request with a code resolves the flow even if it carries an
\* error parameter.
fetchHandler_ignoresError(req, state, redirectUri, pr) ==
  IF Falsy(req.code)
  THEN IF ~Falsy(req.error)
       THEN Handled(settle(pr, Rejected("OAuth2Error")), TRUE, "Authentication failed")
       ELSE Handled(pr, FALSE, "Waiting")
  ELSE IF req.state # state /\ Falsy(req.error)
       THEN Handled(settle(pr, Rejected("StateMismatch")), TRUE, "State mismatch")
  ELSE Handled(settle(pr, Resolved(req.code, redirectUri)), TRUE, "Authenticated")

\* Mutant: a request without code and error schedules server.stop().
fetchHandler_stopsOnProbe(req, state, redirectUri, pr) ==
  IF ~Falsy(req.error)
  THEN Handled(settle(pr, Rejected("OAuth2Error")), TRUE, "Authentication failed")
  ELSE IF Falsy(req.code) THEN Handled(pr, TRUE, "Waiting")
  ELSE IF req.state # state
       THEN Handled(settle(pr, Rejected("StateMismatch")), TRUE, "State mismatch")
  ELSE Handled(settle(pr, Resolved(req.code, redirectUri)), TRUE, "Authenticated")

\* Mutant: the code and the state are looked at before the error parameter.
fetchHandler_codeFirst(req, state, redirectUri, pr) ==
  IF ~Falsy(req.code)
  THEN IF req.state # state
       THEN Handled(settle(pr, Rejected("StateMismatch")), TRUE, "State mismatch")
       ELSE Handled(settle(pr, Resolved(req.code, redirectUri)), TRUE, "Authenticated")
  ELSE IF ~Falsy(req.error)
  THEN Handled(settle(pr, Rejected("OAuth2Error")), TRUE, "Authentication failed")
  ELSE Handled(pr, FALSE, "Waiting")

\* fetch(req) of oauthCallbackFlow
fetchHandler(req, state, redirectUri, pr) ==
  IF ~Falsy(req.error)
  THEN Handled(settle(pr, Rejected("OAuth2Error")), TRUE, "Authentication failed")
  ELSE IF Falsy(req.code) THEN Handled(pr, FALSE, "Waiting")
  ELSE IF req.state # state
       THEN Handled(settle(pr, Rejected("StateMismatch")), TRUE, "State mismatch")
  ELSE Handled(settle(pr, Resolved(req.code, redirectUri)), TRUE, "Authenticated")

\* The process of the last command is over: nothing was started, it called
\* process.exit(1), or its action returned and neither the listener nor a timer
\* keeps the event loop alive.
ProcessOver ==
  \/ cmd \in {"idle", "exited"}
  \/ cmd = "done" /\ ~listening /\ stopTimers = 0 /\ ~timeoutPending

\* catch (e) { showError(...); process.exit(1) }: the listener and the timers
\* die with the process.
Exit(tool, st, outcome, requests, res) ==
  /\ cmd' = "exited"
  /\ listening' = FALSE
  /\ stopTimers' = 0
  /\ timeoutPending' = FALSE
  /\ last' = Did("auth-login", tool, Call(st, outcome, Null, requests, res))

\* cal auth-setup / mail auth-setup / whoop auth-setup
LoginSetup(credentials) ==
  /\ ProcessOver
  /\ store' = saveOAuth2Credentials(store, credentials, ClientId, ClientSecret,
                                    RedirectUri)
  /\ last' = Idle
  /\ UNCHANGED <<now, loginVars, garmin, tasks, accounts, signed>>

\* cal auth-login <alias> / mail auth-login <alias> up to the await of
\* oauthCallbackFlow: credentials loaded, state generated, listener started,
\* 120 s timer set.
LoginStart(tool) ==
  /\ ProcessOver
  /\ cmdTool' = tool
  /\ promise' = Pending
  /\ handled' = 0
  /\ request' = NoRequest
  /\ response' = "none"
  /\ exchange' = NoExchange
  /\ IF ~loadOAuth2Credentials(store, credentialsTool(tool)).ok
     THEN /\ Exit(tool, store, "NoCredentials", 0, NoResponse)
          /\ expectedState' = Null
     ELSE /\ \E s \in States : expectedState' = s
          /\ cmd' = "awaiting"
          /\ listening' = TRUE
          /\ stopTimers' = 0
          /\ timeoutPending' = TRUE
          /\ last' = Idle
  /\ UNCHANGED <<signed, accounts, tasks, garmin, store, now>>

\* The listener answers one request; the awaiting command then continues: a
\* rejection is caught and exits the process, a resolution sends the code to
\* the token endpoint.
CallbackRequest ==
  /\ listening
  /\ handled < MaxRequests
  /\ \E req \in Requests :
       LET h == fetchHandler(req, expectedState, LocalRedirectUri, promise)
       IN /\ request' = req
          /\ promise' = h.promise
          /\ response' = h.body
          /\ handled' = handled + 1
          /\ IF cmd = "awaiting" /\ h.promise.status = "rejected"
             THEN /\ Exit(cmdTool, store, h.promise.error, 0, NoResponse)
                  /\ UNCHANGED exchange
             ELSE IF cmd = "awaiting" /\ h.promise.status = "resolved"
             THEN /\ cmd' = "exchanging"
                  /\ exchange' = [called |-> TRUE, tool |-> cmdTool,
                                  code |-> h.promise.code,
                                  returnedState |-> req.state,
                                  expectedState |-> expectedState,
                                  compared |-> TRUE]
                  /\ stopTimers' = stopTimers + (IF h.stop THEN 1 ELSE 0)
                  /\ UNCHANGED <<listening, timeoutPending, last>>
             ELSE /\ stopTimers' = stopTimers + (IF h.stop THEN 1 ELSE 0)
                  /\ UNCHANGED <<cmd, exchange, listening, timeoutPending, last>>
  /\ UNCHANGED <<signed, accounts, tasks, garmin, store, now, cmdTool, expectedState>>

\* setTimeout(() => server.stop(), 100) fires.
StopTimerFires ==
  /\ stopTimers > 0
  /\ stopTimers' = stopTimers - 1
  /\ listening' = FALSE
  /\ UNCHANGED <<signed, accounts, tasks, garmin, store, now, last, cmd, cmdTool, expectedState, promise,
                 timeoutPending, handled, request, response, exchange>>

\* Mutant: a request the listener answered has cancelled the 120 s timer.
TimeoutFires_cancelledByRequest ==
  /\ timeoutPending
  /\ promise' = IF handled > 0 THEN promise ELSE settle(promise, Rejected("Timeout"))
  /\ IF handled > 0
     THEN /\ timeoutPending' = FALSE
          /\ UNCHANGED <<cmd, stopTimers, last, listening>>
     ELSE IF cmd = "awaiting"
     THEN Exit(cmdTool, store, "Timeout", 0, NoResponse)
     ELSE /\ listening' = FALSE
          /\ timeoutPending' = FALSE
          /\ UNCHANGED <<cmd, stopTimers, last>>
  /\ UNCHANGED <<signed, accounts, tasks, garmin, store, now, cmdTool, expectedState, handled, request,
                 response, exchange>>

\* Mutant: the timer rejects the flow whether or not it has settled.
TimeoutFires_rejectsSettled ==
  /\ timeoutPending
  /\ promise' = Rejected("Timeout")
  /\ IF cmd = "awaiting"
     THEN Exit(cmdTool, store, "Timeout", 0, NoResponse)
     ELSE /\ listening' = FALSE
          /\ timeoutPending' = FALSE
          /\ UNCHANGED <<cmd, stopTimers, last>>
  /\ UNCHANGED <<signed, accounts, tasks, garmin, store, now, cmdTool, expectedState, handled, request, response,
                 exchange>>

\* The 120 s timer fires: reject with the timeout error, server.stop().
TimeoutFires ==
  /\ timeoutPending
  /\ promise' = settle(promise, Rejected("Timeout"))
  /\ IF cmd = "awaiting"
     THEN Exit(cmdTool, store, "Timeout", 0, NoResponse)
     ELSE /\ listening' = FALSE
          /\ timeoutPending' = FALSE
          /\ UNCHANGED <<cmd, stopTimers, last>>
  /\ UNCHANGED <<signed, accounts, tasks, garmin, store, now, cmdTool, expectedState, handled, request, response,
                 exchange>>

\* The token endpoint answers the code exchange: tokens are saved, or the error
\* is caught and the process exits.
ExchangeResponds ==
  /\ cmd = "exchanging"
  /\ \E res \in LoginResponses :
       LET call == exchangeAndSave(store, cmdTool, now, res)
       IN /\ store' = call.store
          /\ IF call.outcome = "LoggedIn"
             THEN /\ cmd' = "done"
                  /\ last' = Did("auth-login", cmdTool, call)
                  /\ UNCHANGED <<listening, stopTimers, timeoutPending>>
             ELSE Exit(cmdTool, store, call.outcome, 1, res)
  /\ UNCHANGED <<signed, accounts, tasks, garmin, now, cmdTool, expectedState, promise, handled, request, response,
                 exchange>>

\* whoop auth-login: a state is generated and put in the printed URL, the user
\* pastes the redirect URL, and its code is exchanged.
WhoopLogin ==
  /\ ProcessOver
  /\ \E s \in States, url \in PastedUrls :
       \E res \in IF Falsy(url.code) THEN {NoResponse} ELSE LoginResponses :
         LET call == whoopAuthLogin(store, now, ~Falsy(url.code), res)
         IN /\ store' = call.store
            /\ last' = Did("auth-login", TOOL, call)
            /\ cmd' = IF call.outcome = "LoggedIn" THEN "done" ELSE "exited"
            /\ cmdTool' = TOOL
            /\ expectedState' = s
            /\ request' = url
            /\ exchange' = IF call.requests = 0 THEN NoExchange
                           ELSE [called |-> TRUE, tool |-> TOOL, code |-> url.code,
                                 returnedState |-> url.state, expectedState |-> s,
                                 compared |-> FALSE]
  /\ promise' = Pending
  /\ handled' = 0
  /\ response' = "none"
  /\ UNCHANGED <<signed, accounts, tasks, garmin, now, listening, stopTimers, timeoutPending>>

InitLogin ==
  /\ store = EmptyStore
  /\ now = StartTime
  /\ last = Idle
  /\ NoLogin

NextLogin ==
  \/ \E credentials \in {"cal", TOOL} : LoginSetup(credentials)
  \/ \E tool \in LoginTools : LoginStart(tool)
  \/ CallbackRequest
  \/ StopTimerFires
  \/ TimeoutFires
  \/ ExchangeResponds
  \/ WhoopLogin

SpecLogin == InitLogin /\ [][NextLogin]_vars

\* The timers of a live process fire: setTimeout(..., 100) within 100 ms.
FairSpecLogin == SpecLogin /\ WF_vars(StopTimerFires)


\* ------------------------------------------------------------------------
\* Properties of the login commands
\* ------------------------------------------------------------------------

\* A step in which the listener answers a request.
RequestHandled == handled' = handled + 1

\* C3: a request whose state differs from the expected state never resolves the
\* flow; a request with a code, the expected state and no error parameter that
\* reaches the pending flow resolves it with that code and the redirect URI; and
\* once the flow is resolved no later request or timer changes the resolved
\* value.
C3_CallbackResolution ==
  [][/\ (RequestHandled /\ request'.state # expectedState) =>
          (promise'.status = "resolved" => promise' = promise)
     /\ (/\ RequestHandled
         /\ promise.status = "pending"
         /\ Falsy(request'.error)
         /\ ~Falsy(request'.code)
         /\ request'.state = expectedState) =>
          promise' = Resolved(request'.code, LocalRedirectUri)
     /\ (promise.status = "resolved" /\ handled' >= handled) =>
          promise' = promise]_vars

\* C3 witness: after the flow was resolved a second request arrived with a code
\* and a wrong state, and the flow is still resolved.
C3_Witness ==
  /\ promise.status = "resolved"
  /\ handled = 2
  /\ ~Falsy(request.code)
  /\ request.state # expectedState

\* C4: whenever the callback flow has reached a terminal outcome (the promise is
\* resolved or rejected), the listener is eventually stopped.
C4_ListenerStopped == (promise.status # "pending") ~> ~listening

\* C4 witness: the flow was resolved and the listener has been stopped while the
\* command is still at work.
C4_Witness ==
  /\ promise.status = "resolved"
  /\ cmd = "exchanging"
  /\ ~listening

\* C5 as stated: every exchangeCode call of a login command is made with a code
\* whose returned state was compared with, and equals, the state generated for
\* that attempt.
C5_StateValidated ==
  exchange.called =>
    /\ exchange.compared
    /\ exchange.returnedState = exchange.expectedState

\* ------------------------------------------------------------------------
\* Garmin authentication (packages/garmin/src/auth.ts)
\* ------------------------------------------------------------------------

\* TOOL of auth.ts
GARMIN_TOOL == "garmin"

\* The literals the sign-in response is searched for.
LOCKED == <<"l", "o", "c", "k", "e", "d">>
MFA == <<"M", "F", "A">>
TICKET_EQ == <<"t", "i", "c", "k", "e", "t", "=">>

\* s.startsWith(pat)
StartsWith(s, pat) == Len(s) >= Len(pat) /\ SubSeq(s, 1, Len(pat)) = pat

\* s.includes(pat): pat is looked for at every position from the left.
RECURSIVE includes(_, _)
includes(s, pat) ==
  IF StartsWith(s, pat) THEN TRUE
  ELSE IF s = <<>> THEN FALSE
  ELSE includes(Tail(s), pat)

\* The character class [^"&\s]
IsTicketChar(c) == c # "\"" /\ c # "&" /\ ~IsSpace(c)

\* The greedy group ([^"&\s]+) matched at the start of s; empty if it fails.
RECURSIVE ticketGroup(_)
ticketGroup(s) ==
  IF s # <<>> /\ IsTicketChar(Head(s))
  THEN <<Head(s)>> \o ticketGroup(Tail(s))
  ELSE <<>>

\* loginHtml.match(/ticket=([^"&\s]+)/): group 1 of the leftmost match, or
\* Null when nothing matches.
RECURSIVE ticketMatch(_)
ticketMatch(s) ==
  IF s = <<>> THEN Null
  ELSE IF /\ StartsWith(s, TICKET_EQ)
          /\ ticketGroup(SubSeq(s, Len(TICKET_EQ) + 1, Len(s))) # <<>>
       THEN ticketGroup(SubSeq(s, Len(TICKET_EQ) + 1, Len(s)))
  ELSE ticketMatch(Tail(s))

\* How login() goes on after the sign-in response: with a ticket, or throwing.
Classified(outcome, ticket) == [outcome |-> outcome, ticket |-> ticket]

\* Mutant: the ticket is looked for before the lock marker.
classifyLoginHtml_ticketFirst(loginHtml) ==
  IF ticketMatch(loginHtml) # Null
  THEN Classified("Ticket", ticketMatch(loginHtml))
  ELSE IF includes(loginHtml, LOCKED) THEN Classified("AccountLocked", Null)
  ELSE IF includes(loginHtml, MFA) THEN Classified("MfaRequired", Null)
  ELSE Classified("LoginFailed", Null)

\* Mutant: the MFA marker is looked for before the ticket.
classifyLoginHtml_mfaFirst(loginHtml) ==
  IF includes(loginHtml, LOCKED) THEN Classified("AccountLocked", Null)
  ELSE IF includes(loginHtml, MFA) THEN Classified("MfaRequired", Null)
  ELSE IF ticketMatch(loginHtml) = Null THEN Classified("LoginFailed", Null)
  ELSE Classified("Ticket", ticketMatch(loginHtml))

\* login(), "Check for errors" and "Extract ticket"
classifyLoginHtml(loginHtml) ==
  IF includes(loginHtml, LOCKED) THEN Classified("AccountLocked", Null)
  ELSE IF ticketMatch(loginHtml) = Null
       THEN IF includes(loginHtml, MFA) THEN Classified("MfaRequired", Null)
            ELSE Classified("LoginFailed", Null)
  ELSE Classified("Ticket", ticketMatch(loginHtml))

\* Answers of the consumer-credentials URL.
ConsumerResponse(ok, key, secret) ==
  [ok |-> ok, consumer_key |-> key, consumer_secret |-> secret]
NoConsumerResponse == ConsumerResponse(FALSE, Null, Null)
ConsumerResponses ==
  {ConsumerResponse(TRUE, <<"c", "k">>, <<"c", "s">>), NoConsumerResponse}

\* What getConsumer returns or throws, the store afterwards and the number of
\* requests it sent.
GotConsumer(error, st, consumer, requests) ==
  [error |-> error, store |-> st, consumer |-> consumer, requests |-> requests]

getConsumer(st, res) ==
  LET cached == getSecret(st, GARMIN_TOOL, "consumer-key")
      secret == getSecret(st, GARMIN_TOOL, "consumer-secret")
  IN IF ~Falsy(cached)
     THEN IF secret = Null THEN GotConsumer("MissingSecret", st, NoConsumer, 0)
          ELSE GotConsumer("none", st, Consumer(cached, secret), 0)
     ELSE IF ~res.ok THEN GotConsumer("ConsumerFetchFailed", st, NoConsumer, 1)
     ELSE GotConsumer("none",
                      setSecret(setSecret(st, GARMIN_TOOL, "consumer-key",
                                          res.consumer_key),
                                GARMIN_TOOL, "consumer-secret", res.consumer_secret),
                      Consumer(res.consumer_key, res.consumer_secret), 1)

\* Answers of the preauthorized endpoint: the parameters of its body.
PreauthResponse(ok, token, secret) ==
  [ok |-> ok, oauth_token |-> token, oauth_token_secret |-> secret]
PreauthResponses ==
  {PreauthResponse(TRUE, <<"o", "1">>, <<"s", "1">>),
   PreauthResponse(TRUE, <<"o", "2">>, <<"s", "2">>),
   PreauthResponse(TRUE, <<"o", "1">>, Null),
   PreauthResponse(FALSE, Null, Null)}

\* Answers of the OAuth1->OAuth2 exchange endpoint: an OK response with its
\* JSON, a non-OK response, or a fetch that throws.
OAuth2Response(kind, a, r, e, re) ==
  [kind |-> kind, access_token |-> a, refresh_token |-> r, expires_in |-> e,
   refresh_token_expires_in |-> re]
NoOAuth2Response == OAuth2Response("none", Null, Null, 0, 0)
OAuth2Responses ==
  {OAuth2Response("ok", <<"g", "1">>, <<"r", "1">>, SafetyBuffer + 1,
                  SafetyBuffer + 2),
   OAuth2Response("ok", <<"g", "2">>, <<"r", "2">>, SafetyBuffer + 1,
                  SafetyBuffer + 3),
   OAuth2Response("ok", <<"g", "1">>, <<"r", "1">>, SafetyBuffer,
                  SafetyBuffer + 2),
   OAuth2Response("non-ok", Null, Null, 0, 0),
   OAuth2Response("throws", Null, Null, 0, 0)}

\* Mutant: the OAuth1 token is not persisted before the exchange.
saveOAuth1_deferred(st, oauthToken, oauthTokenSecret) == st

\* login(), "Save OAuth1 tokens"
saveOAuth1(st, oauthToken, oauthTokenSecret) ==
  setSecret(setSecret(st, GARMIN_TOOL, "oauth1-token", oauthToken),
            GARMIN_TOOL, "oauth1-secret", oauthTokenSecret)

\* What exchangeOAuth2 leaves behind when the endpoint answers res at time t.
Exchanged(error, st) == [error |-> error, store |-> st]

exchangeOAuth2(st, t, res) ==
  IF res.kind = "throws" THEN Exchanged("ExchangeThrown", st)
  ELSE IF res.kind # "ok" THEN Exchanged("OAuth2ExchangeFailed", st)
  ELSE Exchanged("none",
         setSecret(
           setSecret(
             setSecret(
               setSecret(st, GARMIN_TOOL, "access-token", res.access_token),
               GARMIN_TOOL, "refresh-token", res.refresh_token),
             GARMIN_TOOL, "expires-at", String(t + res.expires_in - SafetyBuffer)),
           GARMIN_TOOL, "refresh-expires-at",
           String(t + res.refresh_token_expires_in - SafetyBuffer)))

\* getSecret(TOOL, key) ?? "0", parsed.
storedInstant(st, key) ==
  LET raw == getSecret(st, GARMIN_TOOL, key)
  IN parseInt(IF raw = Null THEN <<"0">> ELSE raw)

\* What one garmin command did: how it ended, what it returned, the requests it
\* sent to the consumer URL and to the exchange endpoint, and their answers.
GarminCall(st, outcome, value, consumerReqs, exchangeReqs, consumerRes, res) ==
  [store |-> st, outcome |-> outcome, value |-> value,
   consumerRequests |-> consumerReqs, exchangeRequests |-> exchangeReqs,
   consumerRes |-> consumerRes, res |-> res]

\* Mutant: after the refresh the token read at the start is returned.
garminGetValidAccessToken_returnsStale(st, t, consumerRes, res) ==
  LET accessToken == getSecret(st, GARMIN_TOOL, "access-token")
      oauth1Token == getSecret(st, GARMIN_TOOL, "oauth1-token")
      oauth1Secret == getSecret(st, GARMIN_TOOL, "oauth1-secret")
      got == getConsumer(st, consumerRes)
      asked == IF got.requests = 0 THEN NoConsumerResponse ELSE consumerRes
      exchanged == exchangeOAuth2(got.store, t, res)
  IN IF Falsy(accessToken)
     THEN GarminCall(st, "NotLoggedIn", Null, 0, 0, NoConsumerResponse,
                     NoOAuth2Response)
     ELSE IF Lt(Num(t), storedInstant(st, "expires-at"))
     THEN GarminCall(st, "Cached", accessToken, 0, 0, NoConsumerResponse,
                     NoOAuth2Response)
     ELSE IF Falsy(oauth1Token) \/ Falsy(oauth1Secret)
     THEN GarminCall(st, "OAuth1Missing", Null, 0, 0, NoConsumerResponse,
                     NoOAuth2Response)
     ELSE IF Ge(Num(t), storedInstant(st, "refresh-expires-at"))
     THEN GarminCall(st, "RefreshExpired", Null, 0, 0, NoConsumerResponse,
                     NoOAuth2Response)
     ELSE IF got.error # "none"
     THEN GarminCall(got.store, got.error, Null, got.requests, 0, asked,
                     NoOAuth2Response)
     ELSE IF exchanged.error # "none"
     THEN GarminCall(exchanged.store, exchanged.error, Null, got.requests, 1,
                     asked, res)
     ELSE GarminCall(exchanged.store, "Refreshed", accessToken, got.requests, 1,
                     asked, res)

\* Mutant: the refresh-expires-at check is missing.
garminGetValidAccessToken_noRefreshExpiry(st, t, consumerRes, res) ==
  LET accessToken == getSecret(st, GARMIN_TOOL, "access-token")
      oauth1Token == getSecret(st, GARMIN_TOOL, "oauth1-token")
      oauth1Secret == getSecret(st, GARMIN_TOOL, "oauth1-secret")
      got == getConsumer(st, consumerRes)
      asked == IF got.requests = 0 THEN NoConsumerResponse ELSE consumerRes
      exchanged == exchangeOAuth2(got.store, t, res)
  IN IF Falsy(accessToken)
     THEN GarminCall(st, "NotLoggedIn", Null, 0, 0, NoConsumerResponse,
                     NoOAuth2Response)
     ELSE IF Lt(Num(t), storedInstant(st, "expires-at"))
     THEN GarminCall(st, "Cached", accessToken, 0, 0, NoConsumerResponse,
                     NoOAuth2Response)
     ELSE IF Falsy(oauth1Token) \/ Falsy(oauth1Secret)
     THEN GarminCall(st, "OAuth1Missing", Null, 0, 0, NoConsumerResponse,
                     NoOAuth2Response)
     ELSE IF got.error # "none"
     THEN GarminCall(got.store, got.error, Null, got.requests, 0, asked,
                     NoOAuth2Response)
     ELSE IF exchanged.error # "none"
     THEN GarminCall(exchanged.store, exchanged.error, Null, got.requests, 1,
                     asked, res)
     ELSE GarminCall(exchanged.store, "Refreshed",
                     getSecret(exchanged.store, GARMIN_TOOL, "access-token"),
                     got.requests, 1, asked, res)

\* getValidAccessToken() of auth.ts at time t; consumerRes and res are what the
\* consumer URL and the exchange endpoint answer if they are asked.
\* Mutant: the refresh expiry is checked before the OAuth1 token.
garminGetValidAccessToken_refreshExpiryFirst(st, t, consumerRes, res) ==
  LET accessToken == getSecret(st, GARMIN_TOOL, "access-token")
      oauth1Token == getSecret(st, GARMIN_TOOL, "oauth1-token")
      oauth1Secret == getSecret(st, GARMIN_TOOL, "oauth1-secret")
      got == getConsumer(st, consumerRes)
      asked == IF got.requests = 0 THEN NoConsumerResponse ELSE consumerRes
      exchanged == exchangeOAuth2(got.store, t, res)
  IN IF Falsy(accessToken)
     THEN GarminCall(st, "NotLoggedIn", Null, 0, 0, NoConsumerResponse,
                     NoOAuth2Response)
     ELSE IF Lt(Num(t), storedInstant(st, "expires-at"))
     THEN GarminCall(st, "Cached", accessToken, 0, 0, NoConsumerResponse,
                     NoOAuth2Response)
     ELSE IF Ge(Num(t), storedInstant(st, "refresh-expires-at"))
     THEN GarminCall(st, "RefreshExpired", Null, 0, 0, NoConsumerResponse,
                     NoOAuth2Response)
     ELSE IF Falsy(oauth1Token) \/ Falsy(oauth1Secret)
     THEN GarminCall(st, "OAuth1Missing", Null, 0, 0, NoConsumerResponse,
                     NoOAuth2Response)
     ELSE IF got.error # "none"
     THEN GarminCall(got.store, got.error, Null, got.requests, 0, asked,
                     NoOAuth2Response)
     ELSE IF exchanged.error # "none"
     THEN GarminCall(exchanged.store, exchanged.error, Null, got.requests, 1,
                     asked, res)
     ELSE GarminCall(exchanged.store, "Refreshed",
                     getSecret(exchanged.store, GARMIN_TOOL, "access-token"),
                     got.requests, 1, asked, res)

garminGetValidAccessToken(st, t, consumerRes, res) ==
  LET accessToken == getSecret(st, GARMIN_TOOL, "access-token")
      oauth1Token == getSecret(st, GARMIN_TOOL, "oauth1-token")
      oauth1Secret == getSecret(st, GARMIN_TOOL, "oauth1-secret")
      got == getConsumer(st, consumerRes)
      asked == IF got.requests = 0 THEN NoConsumerResponse ELSE consumerRes
      exchanged == exchangeOAuth2(got.store, t, res)
  IN IF Falsy(accessToken)
     THEN GarminCall(st, "NotLoggedIn", Null, 0, 0, NoConsumerResponse,
                     NoOAuth2Response)
     ELSE IF Lt(Num(t), storedInstant(st, "expires-at"))
     THEN GarminCall(st, "Cached", accessToken, 0, 0, NoConsumerResponse,
                     NoOAuth2Response)
     ELSE IF Falsy(oauth1Token) \/ Falsy(oauth1Secret)
     THEN GarminCall(st, "OAuth1Missing", Null, 0, 0, NoConsumerResponse,
                     NoOAuth2Response)
     ELSE IF Ge(Num(t), storedInstant(st, "refresh-expires-at"))
     THEN GarminCall(st, "RefreshExpired", Null, 0, 0, NoConsumerResponse,
                     NoOAuth2Response)
     ELSE IF got.error # "none"
     THEN GarminCall(got.store, got.error, Null, got.requests, 0, asked,
                     NoOAuth2Response)
     ELSE IF exchanged.error # "none"
     THEN GarminCall(exchanged.store, exchanged.error, Null, got.requests, 1,
                     asked, res)
     ELSE GarminCall(exchanged.store, "Refreshed",
                     getSecret(exchanged.store, GARMIN_TOOL, "access-token"),
                     got.requests, 1, asked, res)

\* The two token files of a garth/garmy directory.
TokenFiles(found, o, s, a, r, e, re) ==
  [found |-> found, oauth_token |-> o, oauth_token_secret |-> s,
   access_token |-> a, refresh_token |-> r, expires_at |-> e,
   refresh_token_expires_at |-> re]
TokenDirs ==
  {TokenFiles(TRUE, <<"o", "3">>, <<"s", "3">>, <<"g", "3">>, <<"r", "3">>,
              StartTime + 1, StartTime + 2),
   TokenFiles(FALSE, Null, Null, Null, Null, 0, 0)}

\* importTokens(dir)
importTokens(st, dir) ==
  IF ~dir.found
  THEN GarminCall(st, "NotFound", Null, 0, 0, NoConsumerResponse, NoOAuth2Response)
  ELSE GarminCall(
         setSecret(
           setSecret(
             setSecret(
               setSecret(
                 setSecret(
                   setSecret(st, GARMIN_TOOL, "oauth1-token", dir.oauth_token),
                   GARMIN_TOOL, "oauth1-secret", dir.oauth_token_secret),
                 GARMIN_TOOL, "access-token", dir.access_token),
               GARMIN_TOOL, "refresh-token", dir.refresh_token),
             GARMIN_TOOL, "expires-at", String(dir.expires_at)),
           GARMIN_TOOL, "refresh-expires-at", String(dir.refresh_token_expires_at)),
         "Imported", Null, 0, 0, NoConsumerResponse, NoOAuth2Response)

\* garmin logout
garminLogout(st) ==
  deleteAll(st, GARMIN_TOOL,
            <<"oauth1-token", "oauth1-secret", "access-token", "refresh-token",
              "expires-at", "refresh-expires-at", "consumer-key",
              "consumer-secret", "display-name", "profile-pk">>)

\* What the last garmin command did.
GarminDid(op, call) ==
  [op |-> op, tool |-> GARMIN_TOOL, outcome |-> call.outcome, value |-> call.value,
   consumerRequests |-> call.consumerRequests,
   exchangeRequests |-> call.exchangeRequests,
   consumerRes |-> call.consumerRes, res |-> call.res]

\* login() is still running / has thrown the error `outcome`.
LoginStep(outcome, consumerRequests, exchangeRequests, consumerRes, res) ==
  GarminDid("login", GarminCall(EmptyStore, outcome, Null, consumerRequests,
                                exchangeRequests, consumerRes, res))
LoginThrows(outcome) ==
  LoginStep(outcome, 0, 0, NoConsumerResponse, NoOAuth2Response)

\* Pieces the sign-in response bodies are put together from, and the most
\* pieces a body has.
MaxFragments == 3
Fragments ==
  {LOCKED, MFA, TICKET_EQ,
   <<"a", "b", "c", "1", "2", "3", "&", "f", "o", "o", "=", "b", "a", "r">>,
   <<"\"">>, <<" ">>, <<"x">>}

RECURSIVE BodiesOf(_)
BodiesOf(n) ==
  IF n = 0 THEN {<<>>}
  ELSE LET shorter == BodiesOf(n - 1)
       IN shorter \cup {b \o f : b \in shorter, f \in Fragments}

\* Every sign-in response body of at most MaxFragments pieces.
LoginBodies == BodiesOf(MaxFragments)

\* The sign-in response bodies a modelled login may receive.
SignInBodies ==
  {LOCKED,
   MFA,
   TICKET_EQ \o <<"a", "b", "c", "1", "2", "3", "&", "f", "o", "o", "=", "b", "a", "r">>,
   MFA \o <<" ">> \o TICKET_EQ \o <<"x">>,
   <<"x">>}

\* garmin login <email> <password>, up to the sign-in response: consumer
\* credentials, SSO cookies, CSRF token, credentials submitted.
GarminLoginStart ==
  /\ garmin.pc = "idle"
  /\ \E consumerRes \in ConsumerResponses, csrfFound \in BOOLEAN,
        loginHtml \in SignInBodies :
       LET got == getConsumer(store, consumerRes)
           asked == IF got.requests = 0 THEN NoConsumerResponse ELSE consumerRes
       IN /\ store' = got.store
          /\ IF got.error # "none"
             THEN /\ garmin' = NotInLogin
                  /\ last' = LoginStep(got.error, got.requests, 0, asked,
                                       NoOAuth2Response)
             ELSE IF ~csrfFound
             THEN /\ garmin' = NotInLogin
                  /\ last' = LoginStep("CsrfNotFound", got.requests, 0, asked,
                                       NoOAuth2Response)
             ELSE /\ garmin' = Login("submitted", got.consumer, loginHtml, Null,
                                     Null, Null)
                  /\ last' = LoginStep("Running", got.requests, 0, asked,
                                       NoOAuth2Response)
  /\ UNCHANGED <<now, loginVars, tasks, accounts, signed>>

\* login() classifies the sign-in response and, with a ticket, sends the
\* preauthorized request.
GarminClassify ==
  /\ garmin.pc = "submitted"
  /\ LET classified == classifyLoginHtml(garmin.loginHtml)
     IN IF classified.outcome = "Ticket"
        THEN /\ garmin' = [garmin EXCEPT !.pc = "preauthorizing",
                                         !.ticket = classified.ticket]
             /\ last' = LoginThrows("Running")
        ELSE /\ garmin' = NotInLogin
             /\ last' = LoginThrows(classified.outcome)
  /\ UNCHANGED <<store, now, loginVars, tasks, accounts, signed>>

\* Mutant: the OAuth1 token is written before the secret is looked at.
GarminPreauthResponds_savesBeforeCheck ==
  /\ garmin.pc = "preauthorizing"
  /\ \E res \in PreauthResponses :
       IF ~res.ok
       THEN /\ garmin' = NotInLogin
            /\ last' = LoginThrows("OAuth1ExchangeFailed")
            /\ UNCHANGED store
       ELSE IF Falsy(res.oauth_token)
       THEN /\ garmin' = NotInLogin
            /\ last' = LoginThrows("NoOAuth1Token")
            /\ UNCHANGED store
       ELSE IF Falsy(res.oauth_token_secret)
       THEN /\ garmin' = NotInLogin
            /\ last' = LoginThrows("NoOAuth1Token")
            /\ store' = setSecret(store, GARMIN_TOOL, "oauth1-token",
                                  res.oauth_token)
       ELSE /\ store' = saveOAuth1(store, res.oauth_token, res.oauth_token_secret)
            /\ garmin' = [garmin EXCEPT !.pc = "saved",
                                        !.oauthToken = res.oauth_token,
                                        !.oauthTokenSecret = res.oauth_token_secret]
            /\ last' = LoginThrows("Running")
  /\ UNCHANGED <<now, loginVars, tasks, accounts, signed>>

\* The preauthorized endpoint answers: the OAuth1 token and secret are
\* extracted and saved.
GarminPreauthResponds ==
  /\ garmin.pc = "preauthorizing"
  /\ \E res \in PreauthResponses :
       IF ~res.ok
       THEN /\ garmin' = NotInLogin
            /\ last' = LoginThrows("OAuth1ExchangeFailed")
            /\ UNCHANGED store
       ELSE IF Falsy(res.oauth_token) \/ Falsy(res.oauth_token_secret)
       THEN /\ garmin' = NotInLogin
            /\ last' = LoginThrows("NoOAuth1Token")
            /\ UNCHANGED store
       ELSE /\ store' = saveOAuth1(store, res.oauth_token, res.oauth_token_secret)
            /\ garmin' = [garmin EXCEPT !.pc = "saved",
                                        !.oauthToken = res.oauth_token,
                                        !.oauthTokenSecret = res.oauth_token_secret]
            /\ last' = LoginThrows("Running")
  /\ UNCHANGED <<now, loginVars, tasks, accounts, signed>>

\* exchangeOAuth2 signs and sends the exchange request.
GarminExchangeSend ==
  /\ garmin.pc = "saved"
  /\ garmin' = [garmin EXCEPT !.pc = "exchanging"]
  /\ last' = LoginStep("Running", 0, 1, NoConsumerResponse, NoOAuth2Response)
  /\ UNCHANGED <<store, now, loginVars, tasks, accounts, signed>>

\* The exchange endpoint answers the request of a login.
GarminExchangeResponds ==
  /\ garmin.pc = "exchanging"
  /\ \E res \in OAuth2Responses :
       LET exchanged == exchangeOAuth2(store, now, res)
       IN /\ store' = exchanged.store
          /\ last' = LoginStep(IF exchanged.error = "none" THEN "LoggedIn"
                               ELSE exchanged.error,
                               0, 0, NoConsumerResponse, res)
  /\ garmin' = NotInLogin
  /\ UNCHANGED <<now, loginVars, tasks, accounts, signed>>

\* A garmin data command asks for a valid access token.
GarminGetValidAccessToken ==
  /\ garmin.pc = "idle"
  /\ \E consumerRes \in ConsumerResponses, res \in OAuth2Responses :
       LET call == garminGetValidAccessToken(store, now, consumerRes, res)
       IN /\ store' = call.store
          /\ last' = GarminDid("getValidAccessToken", call)
  /\ UNCHANGED <<now, loginVars, garmin, tasks, accounts, signed>>

\* garmin import-tokens [dir]
GarminImportTokens ==
  /\ garmin.pc = "idle"
  /\ \E dir \in TokenDirs :
       LET call == importTokens(store, dir)
       IN /\ store' = call.store
          /\ last' = GarminDid("import-tokens", call)
  /\ UNCHANGED <<now, loginVars, garmin, tasks, accounts, signed>>

\* garmin logout
GarminLogout ==
  /\ garmin.pc = "idle"
  /\ store' = garminLogout(store)
  /\ last' = GarminDid("logout",
                       GarminCall(EmptyStore, "LoggedOut", Null, 0, 0,
                                  NoConsumerResponse, NoOAuth2Response))
  /\ UNCHANGED <<now, loginVars, garmin, tasks, accounts, signed>>

InitGarmin ==
  /\ store = EmptyStore
  /\ now = StartTime
  /\ last = Idle
  /\ NoLogin

NextGarmin ==
  \/ GarminLoginStart
  \/ GarminClassify
  \/ GarminPreauthResponds
  \/ GarminExchangeSend
  \/ GarminExchangeResponds
  \/ GarminGetValidAccessToken
  \/ GarminImportTokens
  \/ GarminLogout
  \/ Tick

SpecGarmin == InitGarmin /\ [][NextGarmin]_vars

\* login() holding a sign-in response body of LoginBodies.
InitClassify ==
  /\ store = EmptyStore
  /\ now = StartTime
  /\ last = Idle
  /\ cmd = "idle"
  /\ cmdTool = "none"
  /\ expectedState = Null
  /\ promise = Pending
  /\ listening = FALSE
  /\ stopTimers = 0
  /\ timeoutPending = FALSE
  /\ handled = 0
  /\ request = NoRequest
  /\ response = "none"
  /\ exchange = NoExchange
  /\ tasks = NoTasks
  /\ accounts = <<>>
  /\ signed = <<>>
  /\ \E loginHtml \in LoginBodies :
       garmin = Login("submitted", Consumer(<<"c", "k">>, <<"c", "s">>),
                      loginHtml, Null, Null, Null)

NextClassify == GarminClassify

SpecClassify == InitClassify /\ [][NextClassify]_vars


\* ------------------------------------------------------------------------
\* Properties of the Garmin authentication
\* ------------------------------------------------------------------------

GarminStored(st, key) == ~Falsy(getSecret(st, GARMIN_TOOL, key))

\* An exchange of a login has failed: non-OK response or thrown error.
ExchangeFailures == {"OAuth2ExchangeFailed", "ExchangeThrown"}

\* C6: when login sends the OAuth1->OAuth2 exchange request, oauth1-token and
\* oauth1-secret are already in the store with the values just extracted; and
\* when that exchange fails (non-OK response or thrown error) the store is left
\* as it was, both OAuth1 values exactly as written.
C6_OAuth1SavedBeforeExchange ==
  [][/\ (garmin.pc # "exchanging" /\ garmin'.pc = "exchanging") =>
          /\ ~Falsy(garmin'.oauthToken)
          /\ ~Falsy(garmin'.oauthTokenSecret)
          /\ getSecret(store, GARMIN_TOOL, "oauth1-token") = garmin'.oauthToken
          /\ getSecret(store, GARMIN_TOOL, "oauth1-secret") =
               garmin'.oauthTokenSecret
     /\ (/\ garmin.pc = "exchanging"
         /\ garmin'.pc # "exchanging"
         /\ last'.outcome \in ExchangeFailures) =>
          /\ store' = store
          /\ getSecret(store', GARMIN_TOOL, "oauth1-token") = garmin.oauthToken
          /\ getSecret(store', GARMIN_TOOL, "oauth1-secret") =
               garmin.oauthTokenSecret]_vars

\* C6 witness: a login whose exchange failed after it had replaced an earlier
\* OAuth1 token; the new OAuth1 token is in the store.
C6_Witness ==
  /\ last.op = "login"
  /\ last.outcome \in ExchangeFailures
  /\ getSecret(store, GARMIN_TOOL, "oauth1-token") = <<"o", "2">>
  /\ getSecret(store, GARMIN_TOOL, "oauth1-secret") = <<"s", "2">>
  /\ GarminStored(store, "access-token")

\* StaleAccess: the access token has expired, the OAuth1 token and secret are
\* stored and the refresh expiry lies ahead.
StaleAccess(st, t) ==
  /\ GarminStored(st, "access-token")
  /\ Ge(Num(t), storedInstant(st, "expires-at"))
  /\ GarminStored(st, "oauth1-token")
  /\ GarminStored(st, "oauth1-secret")
  /\ Lt(Num(t), storedInstant(st, "refresh-expires-at"))

\* A step that is a call of garmin's getValidAccessToken.
GarminTokenCall ==
  last'.op = "getValidAccessToken" /\ last'.tool = GARMIN_TOOL

Dead(st, t) ==
  /\ GarminStored(st, "access-token")
  /\ Ge(Num(t), storedInstant(st, "expires-at"))
  /\ Ge(Num(t), storedInstant(st, "refresh-expires-at"))

\* Usable: an access token is stored and the pair is not Dead.
Usable(st, t) == GarminStored(st, "access-token") /\ ~Dead(st, t)

\* C8: in Dead, getValidAccessToken fails with the "Refresh token expired.
\* Run: garmin login" error, sends no request and leaves the store unchanged,
\* so the pair is still Dead after the call; and a Dead pair becomes usable
\* only in a step of login or importTokens that succeeds.
C8_DeadNeedsLogin ==
  [][/\ (GarminTokenCall /\ Dead(store, now)) =>
          /\ last'.outcome = "RefreshExpired"
          /\ last'.value = Null
          /\ last'.consumerRequests = 0
          /\ last'.exchangeRequests = 0
          /\ store' = store
          /\ Dead(store', now')
     /\ (Dead(store, now) /\ Usable(store', now')) =>
          \/ last'.op = "login" /\ last'.outcome = "LoggedIn"
          \/ last'.op = "import-tokens" /\ last'.outcome = "Imported"]_vars

\* C8 witness: a call in Dead has just failed and the pair is still Dead.
C8_Witness ==
  /\ last.op = "getValidAccessToken"
  /\ last.tool = GARMIN_TOOL
  /\ last.outcome = "RefreshExpired"
  /\ Dead(store, now)

\* pat occurs in s at position i; pat occurs in s.
Occurs(s, pat, i) ==
  /\ i >= 1
  /\ i + Len(pat) - 1 <= Len(s)
  /\ SubSeq(s, i, i + Len(pat) - 1) = pat
Contains(s, pat) == \E i \in 1..Len(s) : Occurs(s, pat, i)

\* The characters i..j of s are a ticket: none of them is '"', '&' or white
\* space, and the character after them, if any, is one of these.
TicketRun(s, i, j) ==
  /\ i <= j
  /\ j <= Len(s)
  /\ \A k \in i..j : s[k] # "\"" /\ s[k] # "&" /\ s[k] \notin {" ", "\n", "\t"}
  /\ j < Len(s) => s[j + 1] \in {"\"", "&", " ", "\n", "\t"}

\* "ticket=abc123&foo=bar"
TicketExample ==
  <<"t", "i", "c", "k", "e", "t", "=", "a", "b", "c", "1", "2", "3", "&", "f",
    "o", "o", "=", "b", "a", "r">>

\* C10: classification of the sign-in response body. A body with "locked" ends
\* in AccountLocked whether or not it has a ticket. In a body without "locked"
\* whose first "ticket=" is followed by a ticket character, the ticket is what
\* follows up to the first '"', '&' or white space, so "ticket=abc123&foo=bar"
\* gives "abc123". A body with neither "ticket=" nor "locked" nor "MFA" ends in
\* LoginFailed.
C10_LoginClassification ==
  [][(garmin.pc = "submitted" /\ garmin'.pc # "submitted") =>
       LET body == garmin.loginHtml
       IN /\ Contains(body, LOCKED) =>
               garmin'.pc = "idle" /\ last'.outcome = "AccountLocked"
          /\ \A i \in 1..Len(body) : \A j \in 1..Len(body) :
               (/\ ~Contains(body, LOCKED)
                /\ Occurs(body, TICKET_EQ, i)
                /\ \A h \in 1..(i - 1) : ~Occurs(body, TICKET_EQ, h)
                /\ TicketRun(body, i + Len(TICKET_EQ), j)) =>
                 /\ garmin'.pc = "preauthorizing"
                 /\ garmin'.ticket = SubSeq(body, i + Len(TICKET_EQ), j)
          /\ \A i \in 1..Len(body) :
               (/\ ~Contains(body, LOCKED)
                /\ Occurs(body, TicketExample, i)
                /\ \A h \in 1..(i - 1) : ~Occurs(body, TICKET_EQ, h)) =>
                 /\ garmin'.pc = "preauthorizing"
                 /\ garmin'.ticket = <<"a", "b", "c", "1", "2", "3">>
          /\ (/\ ~Contains(body, TICKET_EQ)
              /\ ~Contains(body, LOCKED)
              /\ ~Contains(body, MFA)) =>
               garmin'.pc = "idle" /\ last'.outcome = "LoginFailed"]_vars

\* C10 witness: the body ticket=abc123&foo=bar was classified and login goes
\* on with the ticket abc123.
C10_Witness ==
  /\ garmin.pc = "preauthorizing"
  /\ garmin.loginHtml = TicketExample
  /\ garmin.ticket = <<"a", "b", "c", "1", "2", "3">>

\* The body has a match of /ticket=([^"&\s]+)/.
HasTicket(body) ==
  \E i \in 1..Len(body) :
    /\ Occurs(body, TICKET_EQ, i)
    /\ i + Len(TICKET_EQ) <= Len(body)
    /\ body[i + Len(TICKET_EQ)] \notin {"\"", "&", " ", "\n", "\t"}

\* A step in which login classifies the sign-in response body.
Classifies == garmin.pc = "submitted" /\ garmin'.pc # "submitted"

\* C11 as claimed: every body with the MFA marker and no lock marker ends in
\* MfaRequired and no ticket exchange is attempted.
C11_MfaBeforeTicket ==
  [][(/\ Classifies
      /\ Contains(garmin.loginHtml, MFA)
      /\ ~Contains(garmin.loginHtml, LOCKED)) =>
       garmin'.pc = "idle" /\ last'.outcome = "MfaRequired"]_vars

\* C11 amended: the order is lock marker, then ticket, then MFA marker, else
\* LoginFailed: a body with "locked" ends in AccountLocked; without it a body
\* with a ticket goes on to the ticket exchange whether or not it has "MFA";
\* with neither, "MFA" ends in MfaRequired, and anything else in LoginFailed.
C11_ClassificationOrder ==
  [][Classifies =>
       LET body == garmin.loginHtml
       IN IF Contains(body, LOCKED)
          THEN garmin'.pc = "idle" /\ last'.outcome = "AccountLocked"
          ELSE IF HasTicket(body)
          THEN garmin'.pc = "preauthorizing" /\ last'.outcome = "Running"
          ELSE IF Contains(body, MFA)
          THEN garmin'.pc = "idle" /\ last'.outcome = "MfaRequired"
          ELSE garmin'.pc = "idle" /\ last'.outcome = "LoginFailed"]_vars

\* C11 witness: a body with the MFA marker and a ticket was classified and
\* login goes on to the ticket exchange.
C11_Witness ==
  /\ garmin.pc = "preauthorizing"
  /\ Contains(garmin.loginHtml, MFA)
  /\ ~Falsy(garmin.ticket)

\* ------------------------------------------------------------------------
\* Further properties of the generic client
\* ------------------------------------------------------------------------

\* A step that is a getValidAccessToken call of the whoop tool.
TokenCall == last'.op = "getValidAccessToken" /\ last'.tool = TOOL

\* C12: when the token endpoint answers the refresh request of
\* getValidAccessToken with a JSON object without access_token, the call fails
\* with RefreshFailed after exactly one request and the Keychain, with its
\* access-token, refresh-token and expires-at, is what it was before the call.
C12_RefreshFailureKeepsTokens ==
  [][(/\ TokenCall
      /\ last'.res.kind = "json"
      /\ JFalsy(last'.res.access_token)) =>
       /\ last'.outcome = "RefreshFailed"
       /\ last'.requests = 1
       /\ store' = store
       /\ loadTokens(store', TOOL) = loadTokens(store, TOOL)
       /\ loadTokens(store', TOOL) # NoTokens]_vars

\* C12 witness: a refresh was rejected; the expired tokens are still stored.
C12_Witness ==
  /\ last.op = "getValidAccessToken"
  /\ last.outcome = "RefreshFailed"
  /\ last.requests = 1
  /\ loadTokens(store, TOOL) # NoTokens
  /\ Ge(Num(now), loadTokens(store, TOOL).expiresAt)

\* No tokens are persisted for the tool: access-token or refresh-token is
\* absent (or empty).
NoTokensPersisted(st) ==
  \/ Falsy(getSecret(st, TOOL, "access-token"))
  \/ Falsy(getSecret(st, TOOL, "refresh-token"))

\* C13: getValidAccessToken fails with NotLoggedIn exactly when access-token or
\* refresh-token is absent, and then sends no request and writes nothing; a
\* step that clears the tool's OAuth2 data leaves no tokens persisted; and
\* only an auth-login that saves tokens makes them persisted again.
C13_NotLoggedIn ==
  [][/\ TokenCall =>
          /\ (last'.outcome = "NotLoggedIn") <=> NoTokensPersisted(store)
          /\ last'.outcome = "NotLoggedIn" =>
               /\ last'.requests = 0
               /\ last'.value = Null
               /\ store' = store
     /\ store' = clearOAuth2Data(store, TOOL) => NoTokensPersisted(store')
     /\ (NoTokensPersisted(store) /\ ~NoTokensPersisted(store')) =>
          last'.op = "auth-login" /\ last'.outcome = "LoggedIn"]_vars

\* C13 witness: the credentials are set up, no tokens are persisted and a
\* call has just failed with NotLoggedIn.
C13_Witness ==
  /\ last.op = "getValidAccessToken"
  /\ last.outcome = "NotLoggedIn"
  /\ last.requests = 0
  /\ loadOAuth2Credentials(store, TOOL).ok
  /\ NoTokensPersisted(store)
  /\ now > StartTime

\* ------------------------------------------------------------------------
\* Further properties of the login commands
\* ------------------------------------------------------------------------

\* The ways a callback flow fails: ErrorReceived, StateMismatch, Timeout.
FlowFailures == {"OAuth2Error", "StateMismatch", "Timeout"}

\* C14: while auth-login awaits the callback flow nothing is written to the
\* Keychain; a request with an error parameter, or with a code and a state
\* other than the expected one, and the timeout, end the awaiting command
\* with that failure; and a command whose flow is rejected exits without
\* calling exchangeCode and with the Keychain as it was before the attempt.
C14_FailedFlowPersistsNothing ==
  [][/\ (cmd = "awaiting" \/ cmd' = "awaiting") => store' = store
     /\ (/\ cmd = "awaiting"
         /\ RequestHandled
         /\ \/ ~Falsy(request'.error)
            \/ ~Falsy(request'.code) /\ request'.state # expectedState) =>
          /\ promise'.status = "rejected"
          /\ promise'.error \in {"OAuth2Error", "StateMismatch"}
     /\ (/\ cmd = "awaiting"
         /\ handled' = handled
         /\ timeoutPending
         /\ ~timeoutPending') =>
          promise' = Rejected("Timeout")
     /\ (cmd = "awaiting" /\ promise'.status = "rejected") =>
          /\ cmd' = "exited"
          /\ last'.op = "auth-login"
          /\ last'.outcome = promise'.error
          /\ last'.outcome \in FlowFailures
          /\ last'.requests = 0
          /\ ~exchange'.called
          /\ store' = store]_vars

\* C14 witness: a login attempt ended in StateMismatch; the tokens an earlier
\* login saved for the account are still stored.
C14_Witness ==
  /\ cmd = "exited"
  /\ last.outcome = "StateMismatch"
  /\ ~exchange.called
  /\ loadTokens(store, cmdTool) # NoTokens

\* ------------------------------------------------------------------------
\* Further properties of the Garmin authentication
\* ------------------------------------------------------------------------

\* The token keys of the garmin namespace.
GarminTokenKeys ==
  {"oauth1-token", "oauth1-secret", "access-token", "refresh-token",
   "expires-at", "refresh-expires-at"}

\* The entry of key is in st2 what it is in st1: absent in both, or present
\* with the same value.
SameEntry(st1, st2, key) ==
  LET p == <<GARMIN_TOOL, key>>
  IN /\ (p \in DOMAIN st1) <=> (p \in DOMAIN st2)
     /\ p \in DOMAIN st1 => st1[p] = st2[p]

\* The ways login fails before the OAuth1 token is persisted.
EarlyLoginFailures ==
  {"CsrfNotFound", "AccountLocked", "MfaRequired", "LoginFailed",
   "OAuth1ExchangeFailed", "NoOAuth1Token"}

\* C15: every step of login up to, and not including, the one that persists
\* the OAuth1 token leaves the six token keys as they are, so a login that
\* fails with CsrfNotFound, AccountLocked, MfaRequired, LoginFailed, a non-OK
\* preauthorized response or NoOAuth1Token has written and deleted none of
\* them.
C15_EarlyFailureWritesNoToken ==
  [][/\ (/\ last'.op = "login"
         /\ garmin.pc \in {"idle", "submitted", "preauthorizing"}
         /\ garmin'.pc # "saved") =>
          \A key \in GarminTokenKeys : SameEntry(store, store', key)
     /\ (last'.op = "login" /\ last'.outcome \in EarlyLoginFailures) =>
          /\ garmin.pc \in {"idle", "submitted", "preauthorizing"}
          /\ garmin'.pc = "idle"
          /\ \A key \in GarminTokenKeys : SameEntry(store, store', key)]_vars

\* C15 witness: a login failed with NoOAuth1Token; the tokens of an earlier
\* login are still stored.
C15_Witness ==
  /\ last.op = "login"
  /\ last.outcome = "NoOAuth1Token"
  /\ garmin.pc = "idle"
  /\ GarminStored(store, "oauth1-token")
  /\ GarminStored(store, "oauth1-secret")
  /\ GarminStored(store, "access-token")

\* C16 as claimed, for the writes of the garmin namespace: after a successful
\* exchange (in login or in getValidAccessToken) expires-at and
\* refresh-expires-at are the reported expiry instants now + expires_in and
\* now + refresh_token_expires_in less the 60 s buffer, and after importTokens
\* they are the expiry instants of the imported file less the 60 s buffer.
C16_ExpiryBuffered ==
  [][/\ (\/ last'.op = "login" /\ last'.outcome = "LoggedIn"
         \/ GarminTokenCall /\ last'.outcome = "Refreshed") =>
          /\ storedInstant(store', "expires-at") =
               Num(now + last'.res.expires_in - SafetyBuffer)
          /\ storedInstant(store', "refresh-expires-at") =
               Num(now + last'.res.refresh_token_expires_in - SafetyBuffer)
     /\ (last'.op = "import-tokens" /\ last'.outcome = "Imported") =>
          \E dir \in TokenDirs :
            /\ dir.found
            /\ getSecret(store', GARMIN_TOOL, "access-token") = dir.access_token
            /\ storedInstant(store', "expires-at") =
                 Num(dir.expires_at - SafetyBuffer)
            /\ storedInstant(store', "refresh-expires-at") =
                 Num(dir.refresh_token_expires_at - SafetyBuffer)]_vars

\* ------------------------------------------------------------------------
\* Garmin login when the Keychain may refuse a write
\* ------------------------------------------------------------------------

\* setSecret called for each <<key, value>> of writes in turn, of which only
\* the first n succeed: the next one throws.
RECURSIVE setSecrets(_, _, _, _)
setSecrets(st, tool, writes, n) ==
  IF n = 0 \/ writes = <<>> THEN st
  ELSE setSecrets(setSecret(st, tool, Head(writes)[1], Head(writes)[2]), tool,
                  Tail(writes), n - 1)

\* getConsumer when only the first n of its setSecret calls succeed.
getConsumerWrites(st, res, n) ==
  IF ~Falsy(getSecret(st, GARMIN_TOOL, "consumer-key")) \/ ~res.ok \/ n >= 2
  THEN getConsumer(st, res)
  ELSE GotConsumer("KeychainWriteFailed",
                   setSecrets(st, GARMIN_TOOL,
                              <<<<"consumer-key", res.consumer_key>>,
                                <<"consumer-secret", res.consumer_secret>>>>, n),
                   NoConsumer, 1)

\* garmin login up to the sign-in response, the Keychain refusing a write of
\* getConsumer or none.
GarminLoginStartWrites ==
  /\ garmin.pc = "idle"
  /\ \E consumerRes \in ConsumerResponses, csrfFound \in BOOLEAN,
        loginHtml \in SignInBodies, n \in 0..2 :
       LET got == getConsumerWrites(store, consumerRes, n)
           asked == IF got.requests = 0 THEN NoConsumerResponse ELSE consumerRes
       IN /\ store' = got.store
          /\ IF got.error # "none"
             THEN /\ garmin' = NotInLogin
                  /\ last' = LoginStep(got.error, got.requests, 0, asked,
                                       NoOAuth2Response)
             ELSE IF ~csrfFound
             THEN /\ garmin' = NotInLogin
                  /\ last' = LoginStep("CsrfNotFound", got.requests, 0, asked,
                                       NoOAuth2Response)
             ELSE /\ garmin' = Login("submitted", got.consumer, loginHtml, Null,
                                     Null, Null)
                  /\ last' = LoginStep("Running", got.requests, 0, asked,
                                       NoOAuth2Response)
  /\ UNCHANGED <<now, loginVars, tasks, accounts, signed>>

\* The preauthorized endpoint answers, the Keychain refusing a write of the
\* OAuth1 token or secret, or none.
GarminPreauthRespondsWrites ==
  /\ garmin.pc = "preauthorizing"
  /\ \E res \in PreauthResponses, n \in 0..2 :
       IF ~res.ok
       THEN /\ garmin' = NotInLogin
            /\ last' = LoginThrows("OAuth1ExchangeFailed")
            /\ UNCHANGED store
       ELSE IF Falsy(res.oauth_token) \/ Falsy(res.oauth_token_secret)
       THEN /\ garmin' = NotInLogin
            /\ last' = LoginThrows("NoOAuth1Token")
            /\ UNCHANGED store
       ELSE IF n < 2
       THEN /\ store' = setSecrets(store, GARMIN_TOOL,
                                   <<<<"oauth1-token", res.oauth_token>>,
                                     <<"oauth1-secret", res.oauth_token_secret>>>>,
                                   n)
            /\ garmin' = NotInLogin
            /\ last' = LoginThrows("KeychainWriteFailed")
       ELSE /\ store' = saveOAuth1(store, res.oauth_token, res.oauth_token_secret)
            /\ garmin' = [garmin EXCEPT !.pc = "saved",
                                        !.oauthToken = res.oauth_token,
                                        !.oauthTokenSecret = res.oauth_token_secret]
            /\ last' = LoginThrows("Running")
  /\ UNCHANGED <<now, loginVars, tasks, accounts, signed>>

NextKeychainFaults ==
  \/ GarminLoginStartWrites
  \/ GarminClassify
  \/ GarminPreauthRespondsWrites
  \/ GarminExchangeSend
  \/ GarminExchangeResponds
  \/ GarminLogout
  \/ Tick

SpecKeychainFaults == InitGarmin /\ [][NextKeychainFaults]_vars

\* The entry <<garmin, key>> exists in the Keychain.
GarminPresent(st, key) == <<GARMIN_TOOL, key>> \in DOMAIN st

\* C17 as claimed: in every reachable Keychain state, also after a setSecret
\* call has thrown partway through an operation, oauth1-token is present iff
\* oauth1-secret is, and consumer-key is present iff consumer-secret is.
C17_PairedSecrets ==
  /\ GarminPresent(store, "oauth1-token") <=> GarminPresent(store, "oauth1-secret")
  /\ GarminPresent(store, "consumer-key") <=> GarminPresent(store, "consumer-secret")

\* ------------------------------------------------------------------------
\* cal agenda: concurrent getValidAccessToken calls, one per account
\* ------------------------------------------------------------------------

\* getValidAccessToken up to its await of the refresh request: it throws,
\* returns the cached token, or has sent the request ("Refreshing", with the
\* refresh token it sent as value).
beginGetValidAccessToken(st, tool, credentials, t) ==
  LET tokens == loadTokens(st, tool)
      creds == loadOAuth2Credentials(st, credentials)
  IN IF tokens = NoTokens THEN Call(st, "NotLoggedIn", Null, 0, NoResponse)
     ELSE IF Lt(Num(t), tokens.expiresAt)
          THEN Call(st, "Cached", tokens.accessToken, 0, NoResponse)
     ELSE IF ~creds.ok THEN Call(st, "NoCredentials", Null, 0, NoResponse)
     ELSE Call(st, "Refreshing", tokens.refreshToken, 1, NoResponse)

\* Mutant: the refreshed tokens are saved under the credentials namespace.
endGetValidAccessToken_savesUnderCal(st, tool, refreshToken, t, res) ==
  LET refreshed == refreshAccessToken(res, refreshToken, t)
  IN IF refreshed.error # "none" THEN Call(st, refreshed.error, Null, 1, res)
     ELSE Call(saveTokens(st, "cal", refreshed.tokens), "Refreshed",
               refreshed.tokens.accessToken, 1, res)

\* Mutant: the refreshed tokens are saved for every account.
endGetValidAccessToken_savesForAll(st, tool, refreshToken, t, res) ==
  LET refreshed == refreshAccessToken(res, refreshToken, t)
  IN IF refreshed.error # "none" THEN Call(st, refreshed.error, Null, 1, res)
     ELSE Call(saveTokens(saveTokens(st, "cal-a", refreshed.tokens), "cal-b",
                          refreshed.tokens),
               "Refreshed", refreshed.tokens.accessToken, 1, res)

\* getValidAccessToken from the answer res of the token endpoint, at time t, on.
endGetValidAccessToken(st, tool, refreshToken, t, res) ==
  LET refreshed == refreshAccessToken(res, refreshToken, t)
  IN IF refreshed.error # "none" THEN Call(st, refreshed.error, Null, 1, res)
     ELSE Call(saveTokens(st, tool, refreshed.tokens), "Refreshed",
               refreshed.tokens.accessToken, 1, res)

\* What the token endpoint answers to the refresh of an account.
AgendaResponses ==
  {JsonResponse(JStr(<<"a", "1">>), JStr(<<"r", "1">>), JNum(SafetyBuffer + 1)),
   JsonResponse(JStr(<<"a", "2">>), Absent, JNum(SafetyBuffer + 2)),
   JsonResponse(Absent, Absent, Absent)}

\* The tokens an earlier auth-login saved for an account, expiring at e.
LoginTokens(account, e) ==
  Tokens(<<account, "0">>, <<account, "r">>, Num(e))

\* The Keychain with the shared cal credentials and, for the accounts of
\* expiries, the tokens of an earlier login.
RECURSIVE LoggedIn(_, _)
LoggedIn(st, expiries) ==
  IF expiries = <<>> THEN st
  ELSE LoggedIn(IF Head(expiries)[2] < 0 THEN st
                ELSE saveTokens(st, Head(expiries)[1],
                                LoginTokens(Head(expiries)[1], Head(expiries)[2])),
                Tail(expiries))

\* cal agenda starts: every account's listEvents runs up to its first await.
AgendaStart ==
  /\ \A a \in AgendaAccounts : tasks[a].pc # "refreshing"
  /\ tasks' = [a \in AgendaAccounts |->
                LET begun == beginGetValidAccessToken(store, a, "cal", now)
                IN IF begun.outcome = "Refreshing"
                   THEN Task("refreshing", begun.value, "none")
                   ELSE Task("done", Null, begun.outcome)]
  /\ last' = Did("agenda", "cal",
                 Call(EmptyStore, "Started", Null,
                      Cardinality({a \in AgendaAccounts :
                                     tasks'[a].pc = "refreshing"}),
                      NoResponse))
  /\ UNCHANGED <<store, now, loginVars, garmin, accounts, signed>>

\* The token endpoint answers the refresh request of one account.
TaskResponds(a) ==
  /\ tasks[a].pc = "refreshing"
  /\ \E res \in AgendaResponses :
       LET call == endGetValidAccessToken(store, a, tasks[a].refreshToken, now, res)
       IN /\ store' = call.store
          /\ tasks' = [tasks EXCEPT ![a] = Task("done", tasks[a].refreshToken,
                                                call.outcome)]
          /\ last' = Did("getValidAccessToken", a, call)
  /\ UNCHANGED <<now, loginVars, garmin, accounts, signed>>

\* Both accounts set up; each logged in earlier, with tokens expiring now or
\* in a second, or not logged in.
InitAgenda ==
  /\ \E ea, eb \in {-1, StartTime, StartTime + 1} :
       store = LoggedIn(saveOAuth2Credentials(EmptyStore, "cal", ClientId,
                                              ClientSecret, RedirectUri),
                        <<<<"cal-a", ea>>, <<"cal-b", eb>>>>)
  /\ now = StartTime
  /\ last = Idle
  /\ NoLogin

NextAgenda ==
  \/ AgendaStart
  \/ \E a \in AgendaAccounts : TaskResponds(a)
  \/ Tick

SpecAgenda == InitAgenda /\ [][NextAgenda]_vars

\* Every Keychain entry outside the namespace tool is in st2 what it is in st1.
OthersUntouched(st1, st2, tool) ==
  \A p \in DOMAIN st1 \cup DOMAIN st2 :
    p[1] # tool => p \in DOMAIN st1 /\ p \in DOMAIN st2 /\ st1[p] = st2[p]

\* The refresh token a response carries, or the one the request sent.
C18_RefreshToken(res, sent) ==
  IF res.refresh_token.t = "string" /\ res.refresh_token.s # <<>>
  THEN res.refresh_token.s
  ELSE sent

\* C18: cal agenda's concurrent calls keep the accounts apart. The start of
\* the command writes nothing, and the refresh request of an account carries
\* the refresh token stored under that account, the credentials being read
\* under "cal". When an account's request is answered, in whatever order,
\* every entry outside that account's namespace is left as it is, and the
\* account's own tokens are those of its own answer (access token, refresh
\* token or the one it sent, now + expires_in - 60), or are unchanged when
\* the refresh failed.
C18_AccountIsolation ==
  [][/\ last'.op = "agenda" =>
          /\ store' = store
          /\ \A a \in AgendaAccounts :
               IF /\ loadTokens(store, a) # NoTokens
                  /\ Ge(Num(now), loadTokens(store, a).expiresAt)
               THEN /\ tasks'[a].pc = "refreshing"
                    /\ tasks'[a].refreshToken = getSecret(store, a, "refresh-token")
               ELSE tasks'[a].pc = "done"
     /\ \A a \in AgendaAccounts :
          (tasks[a].pc = "refreshing" /\ tasks'[a].pc = "done") =>
            /\ OthersUntouched(store, store', a)
            /\ \A b \in AgendaAccounts \ {a} : tasks'[b] = tasks[b]
            /\ last'.tool = a
            /\ IF last'.outcome = "Refreshed"
               THEN loadTokens(store', a) =
                      Tokens(last'.res.access_token.s,
                             C18_RefreshToken(last'.res, tasks[a].refreshToken),
                             Num(now + last'.res.expires_in.n - SafetyBuffer))
               ELSE store' = store]_vars

\* C18 witness: both accounts were refreshing; cal-b was answered first and
\* has new tokens, cal-a is still waiting with its old tokens stored.
C18_Witness ==
  /\ last.op = "getValidAccessToken"
  /\ last.tool = "cal-b"
  /\ last.outcome = "Refreshed"
  /\ tasks["cal-a"].pc = "refreshing"
  /\ loadTokens(store, "cal-a").accessToken = <<"cal-a", "0">>
  /\ loadTokens(store, "cal-b").accessToken = last.value

\* A step in which the 120 s timer fires.
TimerFires == timeoutPending /\ ~timeoutPending' /\ handled' = handled

\* C19: when the 120 s timer fires on a flow that is still pending, the flow
\* is rejected with the Timeout error and the listener is stopped in that
\* step; and a request that carries neither a code nor an error leaves the
\* flow pending, the timer pending and the listener serving.
C19_TimeoutStopsListener ==
  [][/\ (TimerFires /\ promise.status = "pending") =>
          /\ promise' = Rejected("Timeout")
          /\ ~listening'
          /\ cmd = "awaiting" => cmd' = "exited" /\ last'.outcome = "Timeout"
     /\ (/\ RequestHandled
         /\ Falsy(request'.code)
         /\ Falsy(request'.error)) =>
          /\ response' = "Waiting"
          /\ promise' = promise
          /\ timeoutPending' = timeoutPending
          /\ listening' = listening
          /\ stopTimers' = stopTimers
          /\ cmd' = cmd]_vars

\* C19 witness: only a request without code and error arrived before the
\* timer fired; the flow ended in Timeout and the listener is stopped.
C19_Witness ==
  /\ cmd = "exited"
  /\ last.outcome = "Timeout"
  /\ promise = Rejected("Timeout")
  /\ handled = 1
  /\ response = "Waiting"
  /\ ~listening

\* ------------------------------------------------------------------------
\* The token lifecycle of both clients
\* ------------------------------------------------------------------------

\* The store after whoop auth-setup and auth-login and after garmin login,
\* all run at StartTime.
LoggedInStore ==
  LET setup == saveOAuth2Credentials(EmptyStore, TOOL, ClientId, ClientSecret,
                                     RedirectUri)
      whoop == exchangeAndSave(setup, TOOL, StartTime,
                               JsonResponse(JStr(<<"a", "1">>), JStr(<<"r", "1">>),
                                            JNum(61))).store
      consumer == getConsumer(whoop, ConsumerResponse(TRUE, <<"c", "k">>,
                                                      <<"c", "s">>)).store
      oauth1 == saveOAuth1(consumer, <<"o", "1">>, <<"s", "1">>)
  IN exchangeOAuth2(oauth1, StartTime,
                    OAuth2Response("ok", <<"g", "1">>, <<"r", "1">>,
                                   SafetyBuffer + 1, SafetyBuffer + 3)).store

InitLifecycle ==
  /\ store = LoggedInStore
  /\ now = StartTime
  /\ last = Idle
  /\ NoLogin

\* The data commands of both tools, in any order, as time passes.
NextLifecycle ==
  \/ GetValidAccessToken
  \/ GarminGetValidAccessToken
  \/ Tick

SpecLifecycle == InitLifecycle /\ [][NextLifecycle]_vars

\* Fresh, StaleAccess of the pair the generic client keeps for a tool.
Fresh(st, tool, t) ==
  loadTokens(st, tool) # NoTokens /\ Lt(Num(t), loadTokens(st, tool).expiresAt)
Stale(st, tool, t) ==
  loadTokens(st, tool) # NoTokens /\ Ge(Num(t), loadTokens(st, tool).expiresAt)

\* Fresh of the garmin pair.
GarminFresh(st, t) ==
  GarminStored(st, "access-token") /\ Lt(Num(t), storedInstant(st, "expires-at"))

\* A step in which a getValidAccessToken call refreshed a StaleAccess pair.
RefreshedGeneric ==
  /\ last'.op = "getValidAccessToken"
  /\ last'.tool = TOOL
  /\ last'.outcome = "Refreshed"
  /\ Stale(store, TOOL, now)
RefreshedGarmin ==
  /\ GarminTokenCall
  /\ last'.outcome = "Refreshed"
  /\ StaleAccess(store, now)

\* A step in which a getValidAccessToken call follows at once on one that
\* refreshed.
FollowsRefreshGeneric ==
  /\ last.op = "getValidAccessToken"
  /\ last.tool = TOOL
  /\ last.outcome = "Refreshed"
  /\ last'.op = "getValidAccessToken"
  /\ last'.tool = TOOL
FollowsRefreshGarmin ==
  /\ last.op = "getValidAccessToken"
  /\ last.tool = GARMIN_TOOL
  /\ last.outcome = "Refreshed"
  /\ GarminTokenCall

\* The call of the step returns the token the refresh before it stored and
\* sends nothing.
ReturnsCachedGeneric ==
  /\ last'.outcome = "Cached"
  /\ last'.requests = 0
  /\ last'.value = last.value
  /\ store' = store
ReturnsCachedGarmin ==
  /\ last'.outcome = "Cached"
  /\ last'.consumerRequests = 0
  /\ last'.exchangeRequests = 0
  /\ last'.value = last.value
  /\ store' = store

C20_Lifetime(rawExpires) ==
  IF rawExpires.t = "number" THEN rawExpires.n
  ELSE IF rawExpires.t = "string" /\ ~parseInt(rawExpires.s).nan
                                 /\ parseInt(rawExpires.s).v # 0
  THEN parseInt(rawExpires.s).v
  ELSE 3600

AccountConfig(alias, email, provider) ==
  [alias |-> alias, email |-> email, provider |-> provider]

\* Aliases, e-mail addresses and providers the commands are given.
Aliases == {"a", "b"}
Emails == {"a@x", "b@x"}
Providers == {"google", "fastmail"}

\* `cal-${alias}`
calTool(alias) == IF alias = "a" THEN "cal-a" ELSE "cal-b"

\* What addAccount / removeAccount leave in accounts.json and how they end.
Registry(error, accs) == [error |-> error, accounts |-> accs]

\* accounts.some((a) => a.alias === alias), accounts.some((a) => a.email === email)
someAlias(accs, alias) == \E i \in 1..Len(accs) : accs[i].alias = alias
someEmail(accs, email) == \E i \in 1..Len(accs) : accs[i].email = email

\* Mutant: the e-mail address is not compared.
addAccount_noEmailCheck(accs, alias, email, provider) ==
  IF someAlias(accs, alias) THEN Registry("AliasExists", accs)
  ELSE Registry("none", Append(accs, AccountConfig(alias, email, provider)))

addAccount(accs, alias, email, provider) ==
  IF someAlias(accs, alias) THEN Registry("AliasExists", accs)
  ELSE IF someEmail(accs, email) THEN Registry("EmailExists", accs)
  ELSE Registry("none", Append(accs, AccountConfig(alias, email, provider)))

\* accounts.findIndex((a) => a.alias === alias), 0 for -1
findIndex(accs, alias) ==
  IF someAlias(accs, alias)
  THEN CHOOSE i \in 1..Len(accs) :
         /\ accs[i].alias = alias
         /\ \A h \in 1..(i - 1) : accs[h].alias # alias
  ELSE 0

\* accounts.splice(idx, 1)
splice(accs, idx) == SubSeq(accs, 1, idx - 1) \o SubSeq(accs, idx + 1, Len(accs))

removeAccount(accs, alias) ==
  LET idx == findIndex(accs, alias)
  IN IF idx = 0 THEN Registry("NotFound", accs)
     ELSE Registry("none", splice(accs, idx))

\* loadAccounts({provider})
IsProvider(a, provider) == a.provider = provider
loadAccounts(accs, provider) ==
  SelectSeq(accs, LAMBDA a : IsProvider(a, provider))

\* resolveAccount(input, {provider}): by alias first, then by e-mail; found =
\* FALSE is the thrown "Unknown account" error.
NoAccount == [found |-> FALSE, account |-> AccountConfig("none", "none", "none")]
resolveAccount(accs, input, provider) ==
  LET filtered == loadAccounts(accs, provider)
  IN IF \E i \in 1..Len(filtered) : filtered[i].alias = input
     THEN [found |-> TRUE,
           account |-> filtered[CHOOSE i \in 1..Len(filtered) :
                                  /\ filtered[i].alias = input
                                  /\ \A h \in 1..(i - 1) : filtered[h].alias # input]]
     ELSE IF \E i \in 1..Len(filtered) : filtered[i].email = input
     THEN [found |-> TRUE,
           account |-> filtered[CHOOSE i \in 1..Len(filtered) :
                                  /\ filtered[i].email = input
                                  /\ \A h \in 1..(i - 1) : filtered[h].email # input]]
     ELSE NoAccount

\* The rows cal accounts list prints: alias, e-mail and OK or MISSING.
RECURSIVE accountRows(_, _)
accountRows(st, accs) ==
  IF accs = <<>> THEN <<>>
  ELSE <<<<Head(accs).alias, Head(accs).email,
           IF loadTokens(st, calTool(Head(accs).alias)) # NoTokens
           THEN "OK" ELSE "MISSING">>>>
       \o accountRows(st, Tail(accs))

\* What the last accounts command did, given its arguments.
AccountsDid(op, args, outcome, value) ==
  [op |-> op, tool |-> "cal", args |-> args, outcome |-> outcome,
   value |-> value, requests |-> 0, res |-> NoResponse]

\* The token endpoint's answers to the code exchange of a login as email: the
\* tokens are those of the Google identity the login was made with.
AccountLoginResponses(email) ==
  {JsonResponse(JStr(<<email, "1">>), JStr(<<email, "r">>), JNum(61)),
   JsonResponse(JStr(<<email, "2">>), Absent, JNum(61)),
   InvalidResponse}

\* cal auth-setup <client-id> <client-secret>
CalAuthSetup ==
  /\ store' = saveOAuth2Credentials(store, "cal", ClientId, ClientSecret,
                                    <<"h", "t", "t", "p">>)
  /\ last' = AccountsDid("auth-setup", <<>>, "Saved", Null)
  /\ UNCHANGED <<now, loginVars, garmin, tasks, accounts, signed>>

\* cal accounts add <alias> <email>, mail accounts add <alias> <email> <provider>
AccountsAdd ==
  /\ \E alias \in Aliases, email \in Emails, provider \in Providers :
       LET added == addAccount(accounts, alias, email, provider)
       IN /\ accounts' = added.accounts
          /\ last' = AccountsDid("accounts-add", <<alias, email, provider>>,
                                 IF added.error = "none" THEN "Added"
                                 ELSE added.error, Null)
  /\ UNCHANGED <<store, now, loginVars, garmin, tasks, signed>>

\* Mutant: removing an account also deletes its Keychain entries.
AccountsRemove_clearsTokens ==
  /\ \E alias \in Aliases :
       LET removed == removeAccount(accounts, alias)
       IN /\ accounts' = removed.accounts
          /\ store' = IF removed.error = "none"
                      THEN clearOAuth2Data(store, calTool(alias))
                      ELSE store
          /\ last' = AccountsDid("accounts-remove", <<alias>>,
                                 IF removed.error = "none" THEN "Removed"
                                 ELSE removed.error, Null)
  /\ UNCHANGED <<now, loginVars, garmin, tasks, signed>>

\* cal accounts remove <alias>
AccountsRemove ==
  /\ \E alias \in Aliases :
       LET removed == removeAccount(accounts, alias)
       IN /\ accounts' = removed.accounts
          /\ last' = AccountsDid("accounts-remove", <<alias>>,
                                 IF removed.error = "none" THEN "Removed"
                                 ELSE removed.error, Null)
  /\ UNCHANGED <<store, now, loginVars, garmin, tasks, signed>>

\* cal accounts list
AccountsList ==
  /\ last' = AccountsDid("accounts-list", <<>>, "Listed",
                         accountRows(store, loadAccounts(accounts, "google")))
  /\ UNCHANGED <<store, now, loginVars, garmin, tasks, accounts, signed>>

\* cal auth-login <account>, from the command line to the saved tokens; the
\* callback flow either hands over a code or is rejected.
CalAuthLogin ==
  /\ \E input \in Aliases \cup Emails, hasCode \in BOOLEAN :
       LET resolved == resolveAccount(accounts, input, "google")
           tool == calTool(resolved.account.alias)
       IN IF ~resolved.found
          THEN /\ last' = AccountsDid("auth-login", <<input>>, "UnknownAccount", Null)
               /\ UNCHANGED store
          ELSE IF ~loadOAuth2Credentials(store, "cal").ok
          THEN /\ last' = AccountsDid("auth-login", <<input>>, "NoCredentials", Null)
               /\ UNCHANGED store
          ELSE IF ~hasCode
          THEN /\ last' = AccountsDid("auth-login", <<input>>, "FlowRejected", Null)
               /\ UNCHANGED store
          ELSE \E res \in AccountLoginResponses(resolved.account.email) :
                 LET call == exchangeAndSave(store, tool, now, res)
                 IN /\ store' = call.store
                    /\ last' = AccountsDid("auth-login", <<input>>, call.outcome,
                                           call.value)
  /\ UNCHANGED <<now, loginVars, garmin, tasks, accounts, signed>>

NextAccounts ==
  \/ CalAuthSetup
  \/ AccountsAdd
  \/ AccountsRemove
  \/ AccountsList
  \/ CalAuthLogin

SpecAccounts == Init /\ [][NextAccounts]_vars

\* No two registered accounts share an alias, no two share an e-mail address.
UniqueAccounts(accs) ==
  \A i \in 1..Len(accs) : \A j \in 1..Len(accs) :
    i # j => accs[i].alias # accs[j].alias /\ accs[i].email # accs[j].email

\* C21: starting from the empty registry, no two registered accounts ever
\* share an alias or an e-mail address; an add whose alias or e-mail address
\* is registered already throws and leaves the registry as it was, any other
\* add appends the account; a remove of an alias that is not registered throws
\* and leaves the registry as it was.
C21_RegistryUnique ==
  /\ []UniqueAccounts(accounts)
  /\ [][/\ last'.op = "accounts-add" =>
             IF \E i \in 1..Len(accounts) :
                  \/ accounts[i].alias = last'.args[1]
                  \/ accounts[i].email = last'.args[2]
             THEN /\ last'.outcome \in {"AliasExists", "EmailExists"}
                  /\ accounts' = accounts
             ELSE /\ last'.outcome = "Added"
                  /\ accounts' = Append(accounts,
                                        AccountConfig(last'.args[1], last'.args[2],
                                                      last'.args[3]))
        /\ (/\ last'.op = "accounts-remove"
            /\ \A i \in 1..Len(accounts) : accounts[i].alias # last'.args[1]) =>
             /\ last'.outcome = "NotFound"
             /\ accounts' = accounts]_vars

\* C21 witness: with one account registered, an add under a new alias with
\* its e-mail address has just been refused.
C21_Witness ==
  /\ Len(accounts) = 1
  /\ accounts[1].alias = "a"
  /\ last.op = "accounts-add"
  /\ last.args[1] = "b"
  /\ last.args[2] = accounts[1].email
  /\ last.outcome = "EmailExists"

\* C29: removing an account, and adding one, changes nothing in the Keychain,
\* so the tokens under cal-<alias> outlive the account and loadTokens returns
\* them once the alias is registered again, under whatever e-mail address; and
\* cal accounts list reports a registered google account as OK exactly when
\* tokens are stored under its cal-<alias>.
C29_RemoveKeepsTokens ==
  [][/\ last'.op \in {"accounts-remove", "accounts-add"} =>
          /\ store' = store
          /\ \A alias \in Aliases :
               loadTokens(store', calTool(alias)) = loadTokens(store, calTool(alias))
     /\ last'.op = "accounts-remove" =>
          \A i \in 1..Len(accounts') : accounts'[i] \in
            {accounts[j] : j \in 1..Len(accounts)}
     /\ last'.op = "accounts-list" =>
          /\ store' = store
          /\ Len(last'.value) = Len(loadAccounts(accounts, "google"))
          /\ \A i \in 1..Len(last'.value) :
               /\ last'.value[i][1] = loadAccounts(accounts, "google")[i].alias
               /\ last'.value[i][2] = loadAccounts(accounts, "google")[i].email
               /\ last'.value[i][3] =
                    IF loadTokens(store, calTool(last'.value[i][1])) # NoTokens
                    THEN "OK" ELSE "MISSING"]_vars

\* C29 witness: alias a is registered with b@x, the tokens under cal-a are
\* those of a login made while it was registered with a@x, and the list just
\* printed reports the account as OK.
C29_Witness ==
  /\ last.op = "accounts-list"
  /\ accounts = <<AccountConfig("a", "b@x", "google")>>
  /\ loadTokens(store, "cal-a") # NoTokens
  /\ loadTokens(store, "cal-a").accessToken = <<"a@x", "1">>
  /\ last.value = <<<<"a", "b@x", "OK">>>>

\* ------------------------------------------------------------------------
\* The callback listener after its first request
\* ------------------------------------------------------------------------

\* C22: a request that reaches the listener after the flow has resolved is
\* answered with the waiting page and changes nothing else: the promise, the
\* pending server.stop() timers, the listener, the command and the store stay
\* as they are.
C22_LateRequestIgnored ==
  [][(RequestHandled /\ promise.status = "resolved") =>
       /\ response' = "Waiting"
       /\ promise' = promise
       /\ stopTimers' = stopTimers
       /\ listening' = listening
       /\ timeoutPending' = timeoutPending
       /\ cmd' = cmd
       /\ exchange' = exchange
       /\ store' = store]_vars

\* A request without error and code parameter.
Probe(req) == Falsy(req.error) /\ Falsy(req.code)

\* C25: a request without error and code parameter is answered with the
\* waiting page and leaves the flow listening: the promise, the listener and
\* its timers and the command stay as they are; and a request with a code and
\* the expected state that follows such a request on a pending flow resolves
\* it and the command goes on to the exchange.
C25_ProbeLeavesListening ==
  [][/\ (RequestHandled /\ Probe(request')) =>
          /\ response' = "Waiting"
          /\ promise' = promise
          /\ listening' = listening /\ listening
          /\ stopTimers' = stopTimers
          /\ timeoutPending' = timeoutPending
          /\ cmd' = cmd
          /\ store' = store
     /\ (/\ RequestHandled
         /\ handled >= 1
         /\ Probe(request)
         /\ promise.status = "pending"
         /\ Falsy(request'.error)
         /\ ~Falsy(request'.code)
         /\ request'.state = expectedState) =>
          /\ promise' = Resolved(request'.code, LocalRedirectUri)
          /\ response' = "Authenticated"
          /\ cmd' = "exchanging"
          /\ exchange'.code = request'.code]_vars

\* C25 witness: the second request resolved the flow; the one server.stop()
\* timer pending is the one it scheduled, so the first request was a probe.
C25_Witness ==
  /\ handled = 2
  /\ promise.status = "resolved"
  /\ cmd = "exchanging"
  /\ listening
  /\ stopTimers = 1
  /\ response = "Authenticated"

\* C26: a request with an error parameter that reaches the pending flow
\* rejects it with the OAuth2 error whatever code and state it carries, and no
\* exchange is started; a command goes on to the exchange only with the code
\* of a request that had no error parameter.
C26_ErrorPrecedence ==
  [][/\ (/\ RequestHandled
         /\ ~Falsy(request'.error)
         /\ promise.status = "pending") =>
          /\ promise' = Rejected("OAuth2Error")
          /\ response' = "Authentication failed"
          /\ exchange' = exchange
          /\ cmd' # "exchanging"
          /\ cmd = "awaiting" => cmd' = "exited" /\ last'.outcome = "OAuth2Error"
          /\ store' = store
     /\ (RequestHandled /\ ~Falsy(request'.error)) =>
          /\ promise'.status # "resolved" \/ promise' = promise
          /\ exchange' = exchange
     /\ (cmd = "awaiting" /\ cmd' = "exchanging") =>
          /\ Falsy(request'.error)
          /\ exchange'.code = request'.code]_vars

\* C26 witness: a request with an error parameter, a code and the expected
\* state has ended the login with the OAuth2 error.
C26_Witness ==
  /\ cmd = "exited"
  /\ last.outcome = "OAuth2Error"
  /\ promise = Rejected("OAuth2Error")
  /\ ~Falsy(request.error)
  /\ ~Falsy(request.code)
  /\ request.state = expectedState
  /\ exchange = NoExchange

\* A step in which a request settles the pending flow.
SettledByRequest ==
  RequestHandled /\ promise.status = "pending" /\ promise'.status # "pending"

\* A step in which the pending 120 s timer goes away and the process lives on.
TimerGone == timeoutPending /\ ~timeoutPending' /\ cmd' # "exited"

\* C30 as stated: whenever a request settles the flow, by its code, its error
\* or its state mismatch, the 120 s timer is still pending afterwards; and
\* when the timer fires on a settled flow, the outcome and the store stay as
\* they are and the listener is stopped.
C30_TimerOutlivesSettlement ==
  [][/\ SettledByRequest => timeoutPending'
     /\ (TimerGone /\ promise.status # "pending") =>
          /\ promise' = promise
          /\ store' = store
          /\ ~listening']_vars

\* C30: the flow never cancels its 120 s timer. When a request resolves the
\* flow the timer is still pending afterwards; when a request rejects it the
\* command exits the process and the timer is gone with it; in a process that
\* lives on, a pending timer goes away only by firing on a settled flow, and
\* then the outcome, the command, the exchange, the requests answered and the
\* store stay as they are and the listener is stopped.
C30_TimerOutlivesResolution ==
  [][/\ (SettledByRequest /\ promise'.status = "resolved") => timeoutPending'
     /\ (SettledByRequest /\ promise'.status = "rejected") =>
          cmd' = "exited" /\ ~timeoutPending'
     /\ TimerGone =>
          /\ promise.status # "pending"
          /\ promise' = promise
          /\ store' = store
          /\ cmd' = cmd
          /\ exchange' = exchange
          /\ last' = last
          /\ handled' = handled
          /\ stopTimers' = stopTimers
          /\ ~listening']_vars

\* C30 witness: the login has finished with its tokens saved and the timer,
\* left pending by the resolution, has fired since.
C30_Witness ==
  /\ cmd = "done"
  /\ promise.status = "resolved"
  /\ ~timeoutPending
  /\ ~listening
  /\ loadTokens(store, cmdTool) # NoTokens

\* ------------------------------------------------------------------------
\* The expiry parseTokenResponse computes
\* ------------------------------------------------------------------------

\* An expires_in field is numeric: a number, or a string of decimal digits.
NumericExpiresIn(e) ==
  \/ e.t = "number"
  \/ e.t = "string" /\ e.s # <<>> /\ \A i \in 1..Len(e.s) : IsDigit(e.s[i])

\* The number a numeric expires_in field stands for.
NumericValue(e) == IF e.t = "number" THEN e.n ELSE DigitsValue(e.s, 0)

\* C23: the tokens a code exchange saves expire at now + expires_in - 60
\* whenever expires_in is a number or a numeric string, 0 included, and at
\* now + 3600 - 60 exactly when expires_in is absent or not numeric.
C23_ExpiresAtParsed ==
  (last.op = "auth-login" /\ last.outcome = "LoggedIn") =>
    StoredExpiresAt(store) =
      IF NumericExpiresIn(last.res.expires_in)
      THEN Num(now + NumericValue(last.res.expires_in) - 60)
      ELSE Num(now + 3600 - 60)

\* ------------------------------------------------------------------------
\* The OAuth1 headers garmin signs
\* ------------------------------------------------------------------------

\* The most headers the record of signed headers holds; later ones are signed
\* but not recorded.
MaxSigned == 3

\* randomBytes(16).toString("hex") of the draw-th call: 128 random bits, taken
\* to be a value no earlier call has returned.
randomNonce(draw) == <<"n">> \o String(draw)

\* Mutant: the nonce is drawn once and kept for later headers.
oauth1Header_cachedNonce(method, consumer, token, draw, t) ==
  [method |-> method, oauth_consumer_key |-> consumer.consumer_key,
   oauth_nonce |-> randomNonce(1), oauth_timestamp |-> String(t),
   oauth_token |-> token]

\* The OAuth parameters oauth1Header puts in the header it signs at time t
\* with the draw-th random nonce.
oauth1Header(method, consumer, token, draw, t) ==
  [method |-> method, oauth_consumer_key |-> consumer.consumer_key,
   oauth_nonce |-> randomNonce(draw), oauth_timestamp |-> String(t),
   oauth_token |-> token]

\* oauth1HeaderNoToken: the same without oauth_token.
oauth1HeaderNoToken(method, consumer, draw, t) ==
  [method |-> method, oauth_consumer_key |-> consumer.consumer_key,
   oauth_nonce |-> randomNonce(draw), oauth_timestamp |-> String(t),
   oauth_token |-> Null]

\* The record of signed headers with one more header, while it has room.
Record(log, header) == IF Len(log) < MaxSigned THEN Append(log, header) ELSE log

\* GarminClassify, recording the header of the preauthorized request.
SignedClassify ==
  /\ garmin.pc = "submitted"
  /\ LET classified == classifyLoginHtml(garmin.loginHtml)
     IN IF classified.outcome = "Ticket"
        THEN /\ garmin' = [garmin EXCEPT !.pc = "preauthorizing",
                                         !.ticket = classified.ticket]
             /\ last' = LoginThrows("Running")
             /\ signed' = Record(signed,
                                 oauth1HeaderNoToken("GET", garmin.consumer,
                                                     Len(signed) + 1, now))
        ELSE /\ garmin' = NotInLogin
             /\ last' = LoginThrows(classified.outcome)
             /\ UNCHANGED signed
  /\ UNCHANGED <<store, now, loginVars, tasks, accounts>>

\* GarminExchangeSend, recording the header of the exchange request.
SignedExchangeSend ==
  /\ garmin.pc = "saved"
  /\ garmin' = [garmin EXCEPT !.pc = "exchanging"]
  /\ last' = LoginStep("Running", 0, 1, NoConsumerResponse, NoOAuth2Response)
  /\ signed' = Record(signed, oauth1Header("POST", garmin.consumer,
                                           garmin.oauthToken, Len(signed) + 1, now))
  /\ UNCHANGED <<store, now, loginVars, tasks, accounts>>

\* GarminGetValidAccessToken, recording the header of the exchange request of
\* a refresh.
SignedGetValidAccessToken ==
  /\ garmin.pc = "idle"
  /\ \E consumerRes \in ConsumerResponses, res \in OAuth2Responses :
       LET call == garminGetValidAccessToken(store, now, consumerRes, res)
           consumer == getConsumer(store, consumerRes).consumer
       IN /\ store' = call.store
          /\ last' = GarminDid("getValidAccessToken", call)
          /\ signed' = IF call.exchangeRequests = 0 THEN signed
                       ELSE Record(signed,
                                   oauth1Header("POST", consumer,
                                                getSecret(store, GARMIN_TOOL,
                                                          "oauth1-token"),
                                                Len(signed) + 1, now))
  /\ UNCHANGED <<now, loginVars, garmin, tasks, accounts>>

\* garmin login holding the sign-in response, the consumer credentials
\* fetched and cached.
InitSigner ==
  /\ store = getConsumer(EmptyStore,
                         ConsumerResponse(TRUE, <<"c", "k">>, <<"c", "s">>)).store
  /\ now = StartTime
  /\ last = Idle
  /\ cmd = "idle"
  /\ cmdTool = "none"
  /\ expectedState = Null
  /\ promise = Pending
  /\ listening = FALSE
  /\ stopTimers = 0
  /\ timeoutPending = FALSE
  /\ handled = 0
  /\ request = NoRequest
  /\ response = "none"
  /\ exchange = NoExchange
  /\ tasks = NoTasks
  /\ accounts = <<>>
  /\ signed = <<>>
  /\ \E loginHtml \in SignInBodies :
       garmin = Login("submitted", Consumer(<<"c", "k">>, <<"c", "s">>),
                      loginHtml, Null, Null, Null)

\* The rest of that login and the data commands after it, with the headers
\* they sign on record.
NextSigner ==
  \/ SignedClassify
  \/ GarminPreauthResponds
  \/ SignedExchangeSend
  \/ GarminExchangeResponds
  \/ SignedGetValidAccessToken
  \/ Tick

SpecSigner == InitSigner /\ [][NextSigner]_vars

\* A step in which a header is signed and recorded.
Signs == Len(signed') = Len(signed) + 1

\* No stored value is a nonce on record.
NoNonceStored ==
  \A k \in DOMAIN store : \A i \in 1..Len(signed) : store[k] # signed[i].oauth_nonce

saveTokensWrites_expiryFirst(st, tool, tokens, n) ==
  setSecrets(st, tool,
             <<<<"expires-at", String(tokens.expiresAt.v)>>,
               <<"access-token", tokens.accessToken>>,
               <<"refresh-token", tokens.refreshToken>>>>, n)

\* saveTokens when only the first n of its setSecret calls succeed.
saveTokensWrites(st, tool, tokens, n) ==
  setSecrets(st, tool,
             <<<<"access-token", tokens.accessToken>>,
               <<"refresh-token", tokens.refreshToken>>,
               <<"expires-at", String(tokens.expiresAt.v)>>>>, n)

\* getValidAccessToken when only the first n setSecret calls of its saveTokens
\* succeed: with n < 3 the call ends in the error setSecret throws.
getValidAccessTokenWrites(st, tool, credentials, t, res, n) ==
  LET tokens == loadTokens(st, tool)
      creds == loadOAuth2Credentials(st, credentials)
      refreshed == refreshAccessToken(res, tokens.refreshToken, t)
  IN IF tokens = NoTokens THEN Call(st, "NotLoggedIn", Null, 0, NoResponse)
     ELSE IF Lt(Num(t), tokens.expiresAt)
          THEN Call(st, "Cached", tokens.accessToken, 0, NoResponse)
     ELSE IF ~creds.ok THEN Call(st, "NoCredentials", Null, 0, NoResponse)
     ELSE IF refreshed.error # "none" THEN Call(st, refreshed.error, Null, 1, res)
     ELSE IF n < 3
          THEN Call(saveTokensWrites(st, tool, refreshed.tokens, n),
                    "KeychainWriteFailed", Null, 1, res)
     ELSE Call(saveTokensWrites(st, tool, refreshed.tokens, n), "Refreshed",
               refreshed.tokens.accessToken, 1, res)

\* exchangeOAuth2 when only the first n of its setSecret calls succeed.
exchangeOAuth2Writes(st, t, res, n) ==
  IF res.kind = "throws" THEN Exchanged("ExchangeThrown", st)
  ELSE IF res.kind # "ok" THEN Exchanged("OAuth2ExchangeFailed", st)
  ELSE Exchanged(IF n < 4 THEN "KeychainWriteFailed" ELSE "none",
         setSecrets(st, GARMIN_TOOL,
                    <<<<"access-token", res.access_token>>,
                      <<"refresh-token", res.refresh_token>>,
                      <<"expires-at", String(t + res.expires_in - SafetyBuffer)>>,
                      <<"refresh-expires-at",
                        String(t + res.refresh_token_expires_in - SafetyBuffer)>>>>,
                    n))

\* garmin's getValidAccessToken when only the first n setSecret calls of its
\* exchangeOAuth2 succeed.
garminGetValidAccessTokenWrites(st, t, consumerRes, res, n) ==
  LET accessToken == getSecret(st, GARMIN_TOOL, "access-token")
      oauth1Token == getSecret(st, GARMIN_TOOL, "oauth1-token")
      oauth1Secret == getSecret(st, GARMIN_TOOL, "oauth1-secret")
      got == getConsumer(st, consumerRes)
      asked == IF got.requests = 0 THEN NoConsumerResponse ELSE consumerRes
      exchanged == exchangeOAuth2Writes(got.store, t, res, n)
  IN IF Falsy(accessToken)
     THEN GarminCall(st, "NotLoggedIn", Null, 0, 0, NoConsumerResponse,
                     NoOAuth2Response)
     ELSE IF Lt(Num(t), storedInstant(st, "expires-at"))
     THEN GarminCall(st, "Cached", accessToken, 0, 0, NoConsumerResponse,
                     NoOAuth2Response)
     ELSE IF Falsy(oauth1Token) \/ Falsy(oauth1Secret)
     THEN GarminCall(st, "OAuth1Missing", Null, 0, 0, NoConsumerResponse,
                     NoOAuth2Response)
     ELSE IF Ge(Num(t), storedInstant(st, "refresh-expires-at"))
     THEN GarminCall(st, "RefreshExpired", Null, 0, 0, NoConsumerResponse,
                     NoOAuth2Response)
     ELSE IF got.error # "none"
     THEN GarminCall(got.store, got.error, Null, got.requests, 0, asked,
                     NoOAuth2Response)
     ELSE IF exchanged.error # "none"
     THEN GarminCall(exchanged.store, exchanged.error, Null, got.requests, 1,
                     asked, res)
     ELSE GarminCall(exchanged.store, "Refreshed",
                     getSecret(exchanged.store, GARMIN_TOOL, "access-token"),
                     got.requests, 1, asked, res)

\* The answers the refreshes of this section are tried on.
RefreshAnswers ==
  {JsonResponse(JStr(<<"a", "2">>), JStr(<<"r", "2">>), JNum(61)),
   JsonResponse(JStr(<<"a", "3">>), Absent, JNum(62)),
   InvalidResponse}
ExchangeAnswers ==
  {OAuth2Response("ok", <<"g", "2">>, <<"r", "2">>, SafetyBuffer + 1,
                  SafetyBuffer + 4),
   OAuth2Response("ok", <<"g", "3">>, <<"r", "3">>, SafetyBuffer + 2,
                  SafetyBuffer + 5),
   OAuth2Response("non-ok", Null, Null, 0, 0)}

\* A data command of the generic client; of its setSecret calls the first n
\* succeed.
GetValidAccessTokenWrites ==
  \E res \in RefreshAnswers, n \in 0..3 :
    LET call == getValidAccessTokenWrites(store, TOOL, TOOL, now, res, n)
    IN /\ store' = call.store
       /\ last' = Did("getValidAccessToken", TOOL, call)
       /\ UNCHANGED <<now, loginVars, garmin, tasks, accounts, signed>>

\* A garmin data command; of its setSecret calls the first n succeed.
GarminGetValidAccessTokenWrites ==
  /\ garmin.pc = "idle"
  /\ \E res \in ExchangeAnswers, n \in 0..4 :
       LET call == garminGetValidAccessTokenWrites(store, now, NoConsumerResponse,
                                                   res, n)
       IN /\ store' = call.store
          /\ last' = GarminDid("getValidAccessToken", call)
  /\ UNCHANGED <<now, loginVars, garmin, tasks, accounts, signed>>

NextInterrupted ==
  \/ GetValidAccessTokenWrites
  \/ GarminGetValidAccessTokenWrites
  \/ Tick

SpecInterrupted == InitLifecycle /\ [][NextInterrupted]_vars

\* A step in which a refresh was cut short by a failing setSecret call.
CutShort(tool) ==
  /\ last'.op = "getValidAccessToken"
  /\ last'.tool = tool
  /\ last'.outcome = "KeychainWriteFailed"

\* A getValidAccessToken call of tool follows at once on one that was cut
\* short.
FollowsCutShort(tool) ==
  /\ last.op = "getValidAccessToken"
  /\ last.tool = tool
  /\ last.outcome = "KeychainWriteFailed"
  /\ last'.op = "getValidAccessToken"
  /\ last'.tool = tool

FromResponse(st, t, res) ==
  getSecret(st, GARMIN_TOOL, "expires-at") = String(t + res.expires_in - SafetyBuffer)

RECURSIVE deleteUnlessFailed(_, _, _, _)
deleteUnlessFailed(st, tool, keys, failed) ==
  IF keys = <<>> THEN st
  ELSE deleteUnlessFailed(IF Head(keys) \in failed THEN st
                          ELSE deleteSecret(st, tool, Head(keys)),
                          tool, Tail(keys), failed)

\* The keys whose deleteSecret call is made to fail.
FailingDeletes == {"oauth1-token", "access-token", "refresh-token", "refresh-expires-at"}

\* garmin logout, some of its deleteSecret calls failing.
GarminLogoutDeletes ==
  /\ garmin.pc = "idle"
  /\ \E failed \in SUBSET FailingDeletes :
       store' = deleteUnlessFailed(store, GARMIN_TOOL,
                  <<"oauth1-token", "oauth1-secret", "access-token",
                    "refresh-token", "expires-at", "refresh-expires-at",
                    "consumer-key", "consumer-secret", "display-name",
                    "profile-pk">>, failed)
  /\ last' = GarminDid("logout",
                       GarminCall(EmptyStore, "LoggedOut", Null, 0, 0,
                                  NoConsumerResponse, NoOAuth2Response))
  /\ UNCHANGED <<now, loginVars, garmin, tasks, accounts, signed>>

NextOrder ==
  \/ SignedGetValidAccessToken
  \/ GarminLogoutDeletes
  \/ Tick

SpecOrder == InitLifecycle /\ [][NextOrder]_vars

\* The stored garmin access token has expired.
ExpiredAccess(st, t) ==
  /\ ~Falsy(getSecret(st, GARMIN_TOOL, "access-token"))
  /\ Ge(Num(t), storedInstant(st, "expires-at"))

\* The OAuth1 token or its secret is not stored.
OAuth1Absent(st) ==
  \/ Falsy(getSecret(st, GARMIN_TOOL, "oauth1-token"))
  \/ Falsy(getSecret(st, GARMIN_TOOL, "oauth1-secret"))

\* The Keychain with the garmin refresh-token deleted, or set to v.
WithoutRefreshToken(st) == deleteSecret(st, GARMIN_TOOL, "refresh-token")
WithRefreshToken(st, v) == setSecret(st, GARMIN_TOOL, "refresh-token", v)

\* C28: a getValidAccessToken call of garmin that finds the stored access
\* token expired fails with "OAuth1 tokens missing" when the OAuth1 token or
\* secret is not stored, otherwise with "Refresh token expired" when now has
\* reached refresh-expires-at, in both cases without a request and without a
\* change of the Keychain; only otherwise does it send a request, and the
\* exchange request it sends is signed with the stored OAuth1 token. The call
\* ends the same way, with the same requests and the same Keychain, whatever
\* refresh-token is stored or none.
C28_RefreshDecisionOrder ==
  [][(GarminTokenCall /\ ExpiredAccess(store, now)) =>
       /\ IF OAuth1Absent(store)
          THEN /\ last'.outcome = "OAuth1Missing"
               /\ last'.consumerRequests = 0 /\ last'.exchangeRequests = 0
               /\ store' = store
               /\ signed' = signed
          ELSE IF Ge(Num(now), storedInstant(store, "refresh-expires-at"))
          THEN /\ last'.outcome = "RefreshExpired"
               /\ last'.consumerRequests = 0 /\ last'.exchangeRequests = 0
               /\ store' = store
               /\ signed' = signed
          ELSE /\ last'.consumerRequests + last'.exchangeRequests >= 1
               /\ last'.outcome \notin {"OAuth1Missing", "RefreshExpired"}
               /\ last'.exchangeRequests = 1 =>
                    /\ Len(signed) < MaxSigned => Len(signed') = Len(signed) + 1
                    /\ signed' # <<>>
                    /\ signed'[Len(signed')].oauth_token =
                         getSecret(store, GARMIN_TOOL, "oauth1-token")
       /\ \A st \in {WithoutRefreshToken(store)} \cup
                    {WithRefreshToken(store, v) : v \in {<<"r", "9">>, <<>>}} :
            LET call == garminGetValidAccessToken(st, now, last'.consumerRes,
                                                  last'.res)
            IN /\ call.outcome = last'.outcome
               /\ call.value = last'.value
               /\ call.consumerRequests = last'.consumerRequests
               /\ call.exchangeRequests = last'.exchangeRequests
               /\ call.outcome \in {"OAuth1Missing", "RefreshExpired"} =>
                    call.store = st
               /\ WithoutRefreshToken(call.store) = WithoutRefreshToken(store')]_vars

\* C28 witness: with the access token expired and the refresh expiry reached,
\* a call found the OAuth1 token gone and failed with "OAuth1 tokens missing".
C28_Witness ==
  /\ last.op = "getValidAccessToken"
  /\ last.tool = GARMIN_TOOL
  /\ last.outcome = "OAuth1Missing"
  /\ ExpiredAccess(store, now)
  /\ Ge(Num(now), storedInstant(store, "refresh-expires-at"))
  /\ getSecret(store, GARMIN_TOOL, "refresh-token") = <<"r", "1">>

====
